---------------------------- MODULE Spec2Model ----------------------------
(***************************************************************************)
(* Feedback Analytics Engine of customer-feedback-analyzer.                *)
(*                                                                         *)
(*  - the Insight Rule Engine of the InsightGenerator component            *)
(*    (frontend/src/components/InsightGenerator.jsx): six rule functions,  *)
(*    the priority sort and the handler handleGenerateInsights;            *)
(*  - the aggregate-driven rule variant generateInsights                   *)
(*    (frontend/src/utils/insights.js);                                    *)
(*  - computeAdjustedAggregates (frontend/src/utils/aggregates.js, kept   *)
(*    in Dashboard.jsx): the per-record weighting loop, the percentages,   *)
(*    the theme shares and the phrase extraction;                          *)
(*  - Dashboard.fetchData, which replaces the props of the component,      *)
(*    with calls that overlap;                                             *)
(*  - FeedbackForm (frontend/src/components/FeedbackForm.jsx): validate    *)
(*    and handleSubmit;                                                    *)
(*  - the Sentiment Analyzer of the backend, as the README describes it:   *)
(*    lexicon weights, negation scope, normalised score and label;         *)
(*  - the Theme Detector of the backend, as the README describes it:       *)
(*    keyword and phrase matching, and the fallback label Other.           *)
(*                                                                         *)
(* Texts are sequences of one-character strings, so that toLowerCase,      *)
(* includes and the regular-expression replacements of the code act on     *)
(* characters.  Confidences are held in tenths, weights in units of        *)
(* 1/Scale.  Percentages and averages are compared by cross-multiplying:   *)
(* (n / t) * 100 > 40 is n * 100 > 40 * t, which agrees with the           *)
(* double-precision result of the code for every t below 400.              *)
(***************************************************************************)
EXTENDS Integers, Sequences, FiniteSets, TLC

(***************************************************************************)
(* Bounds of the model.                                                    *)
(***************************************************************************)
MaxBatch == 3
MaxShare == 10
MaxFetch == 2
MaxRefresh == 3
MaxSubmits == 2
MaxCalls == 2
MaxWeighted == 6
MaxTicks == 1
MaxTokens == 5
MaxThemeWords == 3

(***************************************************************************)
(* Characters and texts.                                                   *)
(***************************************************************************)
UpperCase == <<"A", "B", "C", "D", "E", "F", "G", "H", "I", "J", "K", "L", "M",
               "N", "O", "P", "Q", "R", "S", "T", "U", "V", "W", "X", "Y", "Z">>

LowerCase == <<"a", "b", "c", "d", "e", "f", "g", "h", "i", "j", "k", "l", "m",
               "n", "o", "p", "q", "r", "s", "t", "u", "v", "w", "x", "y", "z">>

Range(s) == {s[i] : i \in DOMAIN s}

Digits == {"0", "1", "2", "3", "4", "5", "6", "7", "8", "9"}
Punctuation == {".", ",", "!", "?", "'", "-"}
Spaces == {" ", "\t", "\n"}
Chars == Range(UpperCase) \cup Range(LowerCase) \cup Digits \cup {"_"}
           \cup Punctuation \cup Spaces

\* String.prototype.toLowerCase, one character
LowerChar ==
    [ch \in Chars |->
       IF \E i \in DOMAIN UpperCase : UpperCase[i] = ch
       THEN LowerCase[CHOOSE i \in DOMAIN UpperCase : UpperCase[i] = ch]
       ELSE ch]

\* String.prototype.toLowerCase
ToLowerCase(s) == [i \in DOMAIN s |-> LowerChar[s[i]]]

\* String.prototype.includes
Includes(s, sub) ==
    \E i \in 1..(Len(s) - Len(sub) + 1) : SubSeq(s, i, i + Len(sub) - 1) = sub

\* the class \w of the regular expressions: letters, digits, underscore
WordChars == Range(UpperCase) \cup Range(LowerCase) \cup Digits \cup {"_"}

IsWordChar(ch) == ch \in WordChars

\* the class \s of the regular expressions
IsSpaceChar(ch) == ch \in Spaces

TxtLove == <<"L", "o", "v", "e", " ", "i", "t">>
TxtTarnish == <<"T", "a", "r", "n", "i", "s", "h", "!">>
TxtTarnishLow == <<"t", "a", "r", "n", "i", "s", "h">>
TxtClasp == <<"C", "L", "A", "S", "P", ",", " ", "c", "l", "a", "s", "p">>
TxtHeavy == <<"T", "o", "o", " ", "h", "e", "a", "v", "y">>
TxtPackaging == <<"p", "a", "c", "k", "a", "g", "i", "n", "g">>
TxtInstructions == <<"I", "n", "s", "t", "r", "u", "c", "t", "i", "o", "n", "s">>
TxtDamaged == <<"a", "r", "r", "i", "v", "e", "d", " ", "d", "a", "m", "a", "g", "e", "d">>
TxtUncomfortable == <<"u", "n", "c", "o", "m", "f", "o", "r", "t", "a", "b", "l", "e">>
TxtDotted == <<"a", ".", "b">>
TxtJoined == <<"a", "b">>
TxtSpaced == <<" ", "A", " ", " ", "b", "!">>
TxtPlain == <<"a", " ", "b">>
TxtClaspBroke == <<"T", "h", "e", " ", "c", "l", "a", "s", "p", " ", "b", "r", "o", "k", "e", " ", "f", "a", "s", "t", ".">>
TxtChain == <<"C", "l", "a", "s", "p", " ", "b", "r", "o", "k", "e", ",", " ", "c", "h", "a", "i", "n", " ", "t", "a", "r", "n", "i", "s", "h", " ", "f", "a", "s", "t">>
TxtBrokeTarnish == <<"I", "t", " ", "b", "r", "o", "k", "e", " ", "a", "n", "d", " ", "t", "a", "r", "n", "i", "s", "h">>

DigitSeq == <<"0", "1", "2", "3", "4", "5", "6", "7", "8", "9">>

\* a text told apart from its siblings by a number
Numbered(text, k) == text \o <<" ", DigitSeq[k + 1]>>

(***************************************************************************)
(* Feedback records, as the component receives them.                       *)
(***************************************************************************)
Rec(pid, rating, label, conf, themes, text) ==
    [product_id |-> pid, rating |-> rating,
     sentiment |-> [label |-> label, confidence |-> conf],
     themes |-> themes, review_text |-> text,
     created_at |-> [valid |-> TRUE, day |-> 0]]

\* the same record created on another day, or with an unparseable created_at
RecAt(r, day) == [r EXCEPT !.created_at = [valid |-> TRUE, day |-> day]]
Undated(r) == [r EXCEPT !.created_at = [valid |-> FALSE, day |-> 0]]

\* an array prop that may be null
Absent == [present |-> FALSE, items |-> <<>>]
Given(items) == [present |-> TRUE, items |-> items]

\* the aggregated sentiment object of the backend, or null
NoSentiment ==
    [present |-> FALSE, total |-> 0, positive |-> 0, negative |-> 0,
     neutral |-> 0, average_score |-> 0, average_confidence |-> 0]

SentimentOf(total, pos, neg, score, conf) ==
    [present |-> TRUE, total |-> total, positive |-> pos, negative |-> neg,
     neutral |-> total - pos - neg, average_score |-> score,
     average_confidence |-> conf]

ThemeNames == {"Durability", "Comfort", "Appearance", "Other"}

\* the aggregated theme counts of the backend, or null
NoThemes == [present |-> FALSE, counts |-> [t \in ThemeNames |-> 0]]
ThemesOf(d, c, a, o) ==
    [present |-> TRUE,
     counts |-> [t \in ThemeNames |->
                   CASE t = "Durability" -> d
                     [] t = "Comfort" -> c
                     [] t = "Appearance" -> a
                     [] OTHER -> o]]


(***************************************************************************)
(* InsightGenerator.jsx: the insight record and the six rule functions.    *)
(* subject is the product id or the quick-win phrase interpolated into the *)
(* message; n and d are the numbers interpolated into the detail.          *)
(***************************************************************************)
Insight(category, type, message, subject, n, d, action, priority, confidence, impact, effort) ==
    [category |-> category, type |-> type, message |-> message,
     subject |-> subject, n |-> n, d |-> d, action |-> action,
     priority |-> priority, confidence |-> confidence,
     impact |-> impact, effort |-> effort]

RECURSIVE SumRatings(_)
\* feedback.reduce((sum, f) => sum + f.rating, 0)
SumRatings(items) ==
    IF items = <<>> THEN 0
    ELSE items[1].rating + SumRatings(Tail(items))

RECURSIVE Flatten(_)
\* the spread of several result arrays into one array
Flatten(lists) ==
    IF lists = <<>> THEN <<>>
    ELSE lists[1] \o Flatten(Tail(lists))

\* 1. Overall Sentiment Health Analysis
analyzeOverallHealth(sData) ==
    IF ~sData.present THEN <<>>
    ELSE IF sData.negative > sData.positive
    THEN << Insight("Overall Health", "warning", "Negative Feedback Outweighs Positive",
                    "", sData.negative, sData.positive,
                    "Investigate recent product batches or service issues.",
                    "high", 85, "high", "medium") >>
    ELSE <<>>

\* the filter of getThemeStats that selects the negative reviews of a theme
IsThemeNegative(f) == f.sentiment.label = "Negative"

\* getThemeStats: total 0 stands for the null result
getThemeStats(feedback, themeName) ==
    LET themeReviews == SelectSeq(feedback, LAMBDA f : themeName \in Range(f.themes))
        total == Len(themeReviews)
        negative == Len(SelectSeq(themeReviews, IsThemeNegative))
    IN [total |-> total, negative |-> negative]

\* stats && stats.percentage >= threshold
ThemeOverInclusive(stats, threshold) ==
    /\ stats.total # 0
    /\ stats.negative * 100 >= threshold * stats.total

\* stats && stats.percentage > threshold
ThemeOver(stats, threshold) ==
    /\ stats.total # 0
    /\ stats.negative * 100 > threshold * stats.total

DurabilityThreshold == 40
ComfortThreshold == 30
AppearanceThreshold == 60

\* 2. Theme-Specific Insights
analyzeThemes(tData, fData) ==
    IF ~tData.present \/ ~fData.present \/ Len(fData.items) = 0 THEN <<>>
    ELSE
      LET durability == getThemeStats(fData.items, "Durability")
          comfort == getThemeStats(fData.items, "Comfort")
          appearance == getThemeStats(fData.items, "Appearance")
      IN  (IF ThemeOver(durability, DurabilityThreshold)
           THEN << Insight("Product Quality", "durability", "High Durability Concerns",
                           "", durability.negative, durability.total,
                           "Review manufacturing quality control and material strength.",
                           "high", 85, "high", "high") >>
           ELSE <<>>)
          \o
          (IF ThemeOver(comfort, ComfortThreshold)
           THEN << Insight("Product Design", "comfort", "Comfort Issues Detected",
                           "", comfort.negative, comfort.total,
                           "Evaluate product weight and fit.",
                           "medium", 80, "medium", "medium") >>
           ELSE <<>>)
          \o
          (IF ThemeOver(appearance, AppearanceThreshold)
           THEN << Insight("Aesthetics", "appearance", "Appearance/Finish Dissatisfaction",
                           "", appearance.negative, appearance.total,
                           "Check finishing process and product photography accuracy.",
                           "high", 90, "high", "medium") >>
           ELSE <<>>)

\* avgRating <= 2.5
RatingCriticalInclusive(sum, len) == 2 * sum =< 5 * len

\* avgRating < 2.5, avgRating being sum / len
RatingCritical(sum, len) == 2 * sum < 5 * len

\* avgRating < 3.0
RatingHighBelowThree(sum, len) == sum < 3 * len

\* avgRating < 3.5
RatingHigh(sum, len) == 2 * sum < 7 * len

\* 3. Rating Analysis
analyzeRatings(fData) ==
    IF ~fData.present \/ Len(fData.items) = 0 THEN <<>>
    ELSE
      LET sum == SumRatings(fData.items)
          len == Len(fData.items)
      IN  IF RatingCritical(sum, len)
          THEN << Insight("Rating Health", "rating", "Critical Rating Drop",
                          "", sum, len,
                          "Emergency audit of product line required.",
                          "critical", 100, "high", "high") >>
          ELSE IF RatingHigh(sum, len)
          THEN << Insight("Rating Health", "rating", "Below Average Ratings",
                          "", sum, len,
                          "Analyze 1-2 star reviews for recurring patterns.",
                          "high", 100, "high", "medium") >>
          ELSE <<>>

\* the same filter with confidence >= 0.5
IsHappyButSadInclusive(f) ==
    /\ f.rating >= 4
    /\ f.sentiment.label = "Negative"
    /\ f.sentiment.confidence >= 5

\* High Rating (4-5) but Negative Sentiment; confidence in tenths
IsHappyButSad(f) ==
    /\ f.rating >= 4
    /\ f.sentiment.label = "Negative"
    /\ f.sentiment.confidence > 5

\* Low Rating (1-2) but Positive Sentiment
IsSadButHappy(f) ==
    /\ f.rating =< 2
    /\ f.sentiment.label = "Positive"
    /\ f.sentiment.confidence > 5

\* 4. Contradiction Detection
detectContradictions(fData) ==
    IF ~fData.present THEN <<>>
    ELSE
      LET happyButSad == SelectSeq(fData.items, IsHappyButSad)
          sadButHappy == SelectSeq(fData.items, IsSadButHappy)
      IN  (IF Len(happyButSad) > 0
           THEN << Insight("Data Anomaly", "contradiction",
                           "Rating/Sentiment Contradiction (Positive Rating, Negative Text)",
                           "", Len(happyButSad), 1,
                           "Read these reviews manually - customers might be sarcastic or mixed.",
                           "medium", 70, "low", "low") >>
           ELSE <<>>)
          \o
          (IF Len(sadButHappy) > 0
           THEN << Insight("Data Anomaly", "contradiction",
                           "Rating/Sentiment Contradiction (Negative Rating, Positive Text)",
                           "", Len(sadButHappy), 1,
                           "Check for delivery/service issues unrelated to product quality.",
                           "medium", 70, "low", "low") >>
           ELSE <<>>)

RECURSIVE ProductKeys(_, _)
\* the keys of productStats in insertion order (Object.entries)
ProductKeys(items, seen) ==
    IF items = <<>> THEN seen
    ELSE IF items[1].product_id \in Range(seen)
         THEN ProductKeys(Tail(items), seen)
         ELSE ProductKeys(Tail(items), Append(seen, items[1].product_id))

\* the entry of productStats for one product after the forEach
ProductStatsOf(items, pid) ==
    LET mine == SelectSeq(items, LAMBDA f : f.product_id = pid)
    IN  [count |-> Len(mine),
         totalRating |-> SumRatings(mine),
         negativeCount |-> Len(SelectSeq(mine, LAMBDA f : f.sentiment.label = "Negative"))]

\* if (stats.count < 3) return
ProductSkippedBelowThree(stats) == stats.count < 3

\* if (stats.count < 2) return
ProductSkipped(stats) == stats.count < 2

\* avgRating < 3.0 && negPercent > 50
IsProblemProduct(stats) ==
    /\ stats.totalRating < 3 * stats.count
    /\ stats.negativeCount * 100 > 50 * stats.count

\* avgRating >= 4.5 && stats.count >= 3
IsStarProduct(stats) ==
    /\ 2 * stats.totalRating >= 9 * stats.count
    /\ stats.count >= 3

\* the body of Object.entries(productStats).forEach for one product
ProductInsights(pid, stats) ==
    IF ProductSkipped(stats) THEN <<>>
    ELSE
      (IF IsProblemProduct(stats)
       THEN << Insight("Product Performance", "product", "Underperforming Product",
                       pid, stats.totalRating, stats.count,
                       "Consider halting sales or redesigning",
                       "critical", 90, "high", "high") >>
       ELSE <<>>)
      \o
      (IF IsStarProduct(stats)
       THEN << Insight("Product Performance", "star", "Star Product",
                       pid, stats.totalRating, stats.count,
                       "Promote this product in marketing campaigns.",
                       "low", 90, "high", "low") >>
       ELSE <<>>)

\* 5. Product-Level Insights
analyzeByProduct(fData) ==
    IF ~fData.present THEN <<>>
    ELSE
      LET keys == ProductKeys(fData.items, <<>>)
      IN  Flatten([i \in DOMAIN keys |->
                     ProductInsights(keys[i], ProductStatsOf(fData.items, keys[i]))])

PhraseTooHeavy == <<"t", "o", "o", " ", "h", "e", "a", "v", "y">>
PhrasePackaging == <<"p", "a", "c", "k", "a", "g", "i", "n", "g">>
PhraseInstructions == <<"i", "n", "s", "t", "r", "u", "c", "t", "i", "o", "n", "s">>
PhraseArrivedDamaged == <<"a", "r", "r", "i", "v", "e", "d", " ", "d", "a", "m", "a", "g", "e", "d">>
PhraseTarnish == <<"t", "a", "r", "n", "i", "s", "h">>
PhraseClasp == <<"c", "l", "a", "s", "p">>

\* the fixed pattern table of identifyQuickWins; name is the phrase as it is
\* interpolated into the message, phrase its characters as they are matched
patterns ==
    << [name |-> "too heavy", phrase |-> PhraseTooHeavy, action |-> "Use lighter materials or hollow design",
        effort |-> "medium", impact |-> "high"],
       [name |-> "packaging", phrase |-> PhrasePackaging, action |-> "Improve packaging quality/presentation",
        effort |-> "low", impact |-> "medium"],
       [name |-> "instructions", phrase |-> PhraseInstructions, action |-> "Provide clearer care guide/manual",
        effort |-> "low", impact |-> "medium"],
       [name |-> "arrived damaged", phrase |-> PhraseArrivedDamaged, action |-> "Enhance shipping protection/padding",
        effort |-> "low", impact |-> "high"],
       [name |-> "tarnish", phrase |-> PhraseTarnish, action |-> "Add anti-tarnish coating or care kit",
        effort |-> "low", impact |-> "high"],
       [name |-> "clasp", phrase |-> PhraseClasp, action |-> "Inspect clasp mechanism quality",
        effort |-> "medium", impact |-> "high"] >>

\* f.review_text.includes(pattern.phrase)
MatchesPatternCaseSensitive(f, phrase) == Includes(f.review_text, phrase)

\* f.review_text.toLowerCase().includes(pattern.phrase)
MatchesPattern(f, phrase) == Includes(ToLowerCase(f.review_text), phrase)

\* matches.length >= 2
QuickWinFires(matchCount) == matchCount >= 2

\* 6. Quick Win Identification
identifyQuickWins(fData) ==
    IF ~fData.present THEN <<>>
    ELSE
      Flatten([i \in DOMAIN patterns |->
        LET pattern == patterns[i]
            matches == SelectSeq(fData.items, LAMBDA f : MatchesPattern(f, pattern.phrase))
        IN  IF QuickWinFires(Len(matches))
            THEN << Insight("Quick Win", "quick-win", "Recurring Issue",
                            pattern.name, Len(matches), 1, pattern.action,
                            "medium", 85, pattern.impact, pattern.effort) >>
            ELSE <<>>])

\* a priority table that ranks low first
priorityScoreAscending(priority) ==
    CASE priority = "critical" -> 0
      [] priority = "high" -> 1
      [] priority = "medium" -> 2
      [] priority = "low" -> 3

\* priorityScore of handleGenerateInsights
priorityScore(priority) ==
    CASE priority = "critical" -> 3
      [] priority = "high" -> 2
      [] priority = "medium" -> 1
      [] priority = "low" -> 0

RECURSIVE InsertByPriority(_, _)
\* one insertion of the stable sort: x goes after every element that the
\* comparator priorityScore[b] - priorityScore[a] does not put behind it
InsertByPriority(sorted, x) ==
    IF sorted = <<>> THEN <<x>>
    ELSE IF priorityScore(x.priority) - priorityScore(sorted[1].priority) > 0
         THEN <<x>> \o sorted
         ELSE <<sorted[1]>> \o InsertByPriority(Tail(sorted), x)

RECURSIVE SortFrom(_, _)
SortFrom(sorted, rest) ==
    IF rest = <<>> THEN sorted
    ELSE SortFrom(InsertByPriority(sorted, rest[1]), Tail(rest))

\* allInsights.sort((a, b) => priorityScore[b.priority] - priorityScore[a.priority]);
\* Array.prototype.sort is stable
SortInsights(all) == SortFrom(<<>>, all)

\* Run all analysis modules
RunAllModules(sData, tData, fData) ==
    analyzeOverallHealth(sData)
      \o analyzeThemes(tData, fData)
      \o analyzeRatings(fData)
      \o detectContradictions(fData)
      \o analyzeByProduct(fData)
      \o identifyQuickWins(fData)

(***************************************************************************)
(* utils/insights.js: generateInsights, the aggregate-driven rule set.     *)
(* average_score is held in hundredths, average_confidence in percent.     *)
(***************************************************************************)
UtilInsight(type, message, n, d, confidence, priority) ==
    [type |-> type, message |-> message, n |-> n, d |-> d,
     confidence |-> confidence, priority |-> priority]

\* theme.toLowerCase().includes(key), over the theme names of the system
ThemeNameIncludes(theme, key) ==
    \/ theme = "Durability" /\ key = "durability"
    \/ theme = "Comfort" /\ key = "comfort"
    \/ theme = "Appearance" /\ key = "appearance"

RECURSIVE SumCounts(_, _, _)
\* Object.keys(themeData).reduce(...) over the keys that include the key
SumCounts(counts, keys, key) ==
    IF keys = {} THEN 0
    ELSE LET t == CHOOSE x \in keys : TRUE
         IN  (IF ThemeNameIncludes(t, key) THEN counts[t] ELSE 0)
               + SumCounts(counts, keys \ {t}, key)

ThemeTotal(tData, key) == SumCounts(tData.counts, DOMAIN tData.counts, key)

\* f.themes.some(t => t.toLowerCase().includes(key))
HasTheme(f, key) == \E i \in DOMAIN f.themes : ThemeNameIncludes(f.themes[i], key)

\* the filter of Rules 5 and 7
IsConfidentNegative(f, key) ==
    /\ HasTheme(f, key)
    /\ f.sentiment.label = "Negative"
    /\ f.sentiment.confidence >= 6

WordHeavy == <<"h", "e", "a", "v", "y">>
WordUncomfortable == <<"u", "n", "c", "o", "m", "f", "o", "r", "t", "a", "b", "l", "e">>

\* the filter of Rule 6
IsComfortIssue(f) ==
    /\ HasTheme(f, "comfort")
    /\ \/ f.sentiment.label = "Negative"
       \/ Includes(ToLowerCase(f.review_text), WordHeavy)
       \/ Includes(ToLowerCase(f.review_text), WordUncomfortable)

\* percentage > threshold, percentage being (issues / total) * 100
UtilOver(issues, total, threshold) == issues * 100 > threshold * total

UtilComfortThreshold == 50

\* allFeedback defaults to [] when the argument is undefined
generateInsights(sData, tData, fData) ==
    IF ~sData.present \/ ~tData.present THEN <<>>
    ELSE
      LET items == fData.items
          total == sData.total
          positive == sData.positive
          negative == sData.negative
          avgScore == sData.average_score
          avgConfidence == sData.average_confidence
          durabilityTotal == ThemeTotal(tData, "durability")
          negativeDurability ==
              Len(SelectSeq(items, LAMBDA f : IsConfidentNegative(f, "durability")))
          comfortTotal == ThemeTotal(tData, "comfort")
          comfortIssues == Len(SelectSeq(items, IsComfortIssue))
          appearanceTotal == ThemeTotal(tData, "appearance")
          negativeAppearance ==
              Len(SelectSeq(items, LAMBDA f : IsConfidentNegative(f, "appearance")))
      IN  \* Rule 1: Strong positive sentiment
          (IF avgScore > 20
           THEN << UtilInsight("positive", "Strong positive sentiment", avgScore, 100,
                               avgConfidence, "high") >>
           ELSE <<>>)
          \o \* Rule 2: Negative sentiment trend
          (IF avgScore < -10
           THEN << UtilInsight("negative", "Negative sentiment trend", avgScore, 100,
                               avgConfidence, "high") >>
           ELSE <<>>)
          \o \* Rule 3: High positive percentage
          (IF total > 0 /\ positive * 10 > 6 * total
           THEN << UtilInsight("positive", "Product is well-received", positive, total,
                               avgConfidence, "medium") >>
           ELSE <<>>)
          \o \* Rule: Mixed Sentiment
          (IF total >= 2 /\ positive > 0 /\ negative > 0
           THEN << UtilInsight("neutral", "Mixed feedback detected", positive, negative,
                               avgConfidence, "medium") >>
           ELSE <<>>)
          \o \* Rule 4: Low average rating
          (IF Len(items) > 0 /\ RatingHigh(SumRatings(items), Len(items))
           THEN << UtilInsight("negative", "Low average rating", SumRatings(items), Len(items),
                               80, "high") >>
           ELSE <<>>)
          \o \* Rule 5: Theme-specific insights
          (IF durabilityTotal > 0 /\ Len(items) > 0
                /\ UtilOver(negativeDurability, durabilityTotal, DurabilityThreshold)
           THEN << UtilInsight("durability", "Investigate durability",
                               negativeDurability, durabilityTotal, avgConfidence, "high") >>
           ELSE <<>>)
          \o \* Rule 6: Comfort issues
          (IF comfortTotal > 0 /\ Len(items) > 0
                /\ UtilOver(comfortIssues, comfortTotal, UtilComfortThreshold)
           THEN << UtilInsight("comfort", "Consider lighter designs for better comfort",
                               comfortIssues, comfortTotal, avgConfidence, "medium") >>
           ELSE <<>>)
          \o \* Rule 7: Appearance issues
          (IF appearanceTotal > 0 /\ Len(items) > 0
                /\ UtilOver(negativeAppearance, appearanceTotal, AppearanceThreshold)
           THEN << UtilInsight("appearance", "Review product design and finish quality",
                               negativeAppearance, appearanceTotal, avgConfidence, "high") >>
           ELSE <<>>)

(***************************************************************************)
(* utils/aggregates.js: computeAdjustedAggregates.  Weights are integers   *)
(* in units of 1/Scale; created_at is a day number or an unparseable       *)
(* value, and now is the day number Date.now() gives at the call.          *)
(***************************************************************************)
Scale == 10000

DefaultOpts ==
    [halfLifeDays |-> 30, minConfidence |-> 2, neutralFactor |-> 5, phraseLimit |-> 200]

\* const daysSince = (iso) => ...
daysSince(created_at, now) == IF ~created_at.valid THEN 9999 ELSE now - created_at.day

RECURSIVE Pow2(_)
Pow2(n) == IF n = 0 THEN 1 ELSE 2 * Pow2(n - 1)

\* Math.exp(-Math.log(2) * days / halfLifeDays): exact when days is a multiple
\* of halfLifeDays, and below one unit of weight beyond 30 half-lives
timeWeight(days, halfLifeDays) ==
    IF days < 0 THEN Scale * Pow2((0 - days) \div halfLifeDays)
    ELSE IF days \div halfLifeDays > 30 THEN 0
    ELSE Scale \div Pow2(days \div halfLifeDays)

\* .replace(/[^\w\s]/g, " ")
ReplaceNonWord(s) ==
    [i \in DOMAIN s |-> IF IsWordChar(s[i]) \/ IsSpaceChar(s[i]) THEN s[i] ELSE " "]

RECURSIVE CollapseSpaces(_)
\* .replace(/\s+/g, " ")
CollapseSpaces(s) ==
    IF s = <<>> THEN <<>>
    ELSE IF IsSpaceChar(s[1])
         THEN IF Len(s) > 1 /\ IsSpaceChar(s[2])
              THEN CollapseSpaces(Tail(s))
              ELSE <<" ">> \o CollapseSpaces(Tail(s))
         ELSE <<s[1]>> \o CollapseSpaces(Tail(s))

RECURSIVE TrimStart(_)
TrimStart(s) ==
    IF s # <<>> /\ IsSpaceChar(s[1]) THEN TrimStart(Tail(s)) ELSE s

RECURSIVE TrimEnd(_)
TrimEnd(s) ==
    IF s # <<>> /\ IsSpaceChar(s[Len(s)]) THEN TrimEnd(SubSeq(s, 1, Len(s) - 1)) ELSE s

\* String.prototype.trim
Trim(s) == TrimEnd(TrimStart(s))

\* const sanitizeText = (s = "") => ...
sanitizeText(s) == Trim(CollapseSpaces(ReplaceNonWord(ToLowerCase(s))))

\* a fingerprint that keeps the letter case
fingerprintCaseSensitive(s) == Trim(CollapseSpaces(ReplaceNonWord(s)))

\* const fingerprint = (s) => sanitizeText(s).replace(/\s+/g, " ")
fingerprint(s) == CollapseSpaces(sanitizeText(s))

RECURSIVE ISqrtBetween(_, _, _)
\* the integer square root of n, lo * lo =< n < hi * hi
ISqrtBetween(n, lo, hi) ==
    IF hi - lo =< 1 THEN lo
    ELSE LET mid == (lo + hi) \div 2
         IN  IF mid * mid =< n THEN ISqrtBetween(n, mid, hi)
             ELSE ISqrtBetween(n, lo, mid)

\* Math.sqrt(prev + 1) without the reciprocal
DedupeFactorOfGrowing(prev) == ISqrtBetween(Scale * Scale * (prev + 1), 0, Scale * (prev + 1) + 1)

\* 1 / Math.sqrt(prev + 1), rounded down to a multiple of 1/Scale
DedupeFactorOf(prev) == ISqrtBetween((Scale * Scale) \div (prev + 1), 0, Scale + 1)

\* dedupeMap.size in place of dedupeMap.get(fp): every earlier text counts
DedupeGetAnyText(dedupeMap, fp) == Cardinality(DOMAIN dedupeMap)

\* dedupeMap.get(fp) || 0
DedupeGet(dedupeMap, fp) == IF fp \in DOMAIN dedupeMap THEN dedupeMap[fp] ELSE 0

\* dedupeMap.set(fp, prev + 1)
DedupeSet(dedupeMap, fp, n) ==
    [k \in DOMAIN dedupeMap \cup {fp} |-> IF k = fp THEN n ELSE dedupeMap[k]]

Max(a, b) == IF a >= b THEN a ELSE b
Abs(a) == IF a >= 0 THEN a ELSE 0 - a

\* polarity read from the sentiment label instead of the rating
s_finalFromLabel(r) ==
    CASE r.sentiment.label = "Positive" -> 2
      [] r.sentiment.label = "Negative" -> 0 - 2
      [] OTHER -> 0

\* const s_rating = (rating - 3) / 2; const s_final = s_rating: in halves
s_final(r) == r.rating - 3

\* if (s_final < 0.1), s in halves
IsNegativePolarityLoose(s) == 10 * s < 2

\* if (s_final < -0.1), s in halves
IsNegativePolarity(s) == 10 * s < 0 - 2

\* effective counts of themes are held in units of 1/(Scale * ShareScale), so
\* that reviewWeight * (1 / themes.length) is exact for lists of 1, 2, 3, 4 labels
ShareScale == 12

\* const frac = 1 / themes.length, for every record
fracFixed(themes) == ShareScale

\* const frac = 1 / themes.length
frac(themes) == ShareScale \div Len(themes)

\* the locals of one iteration of the loop over allFeedback
IterationOf(r, dedupeMap, opts, now) ==
    LET c == Max(r.sentiment.confidence, opts.minConfidence) * (Scale \div 10)
        days == daysSince(r.created_at, now)
        tw == timeWeight(days, opts.halfLifeDays)
        fp == fingerprint(r.review_text)
        prev == DedupeGet(dedupeMap, fp)
        dedupeFactor == DedupeFactorOf(prev)
        reviewWeight == (((c * tw) \div Scale) * dedupeFactor) \div Scale
        s == s_final(r)
        themes == IF Len(r.themes) > 0 THEN r.themes ELSE <<"Other">>
    IN  [fp |-> fp, prev |-> prev, dedupeFactor |-> dedupeFactor,
         c |-> c, tw |-> tw, reviewWeight |-> reviewWeight, s_final |-> s,
         posContrib |-> (Max(0, s) * reviewWeight) \div 2,
         negContrib |-> (Max(0, 0 - s) * reviewWeight) \div 2,
         neuContrib |-> ((2 - Abs(s)) * reviewWeight * opts.neutralFactor) \div 20,
         themes |-> themes,
         w |-> reviewWeight * frac(themes)]

RECURSIVE LoopFrom(_, _, _, _, _)
\* for (let i = 0; i < allFeedback.length; ++i): the locals of every iteration
LoopFrom(items, dedupeMap, opts, now, done) ==
    IF items = <<>> THEN done
    ELSE LET it == IterationOf(items[1], dedupeMap, opts, now)
         IN  LoopFrom(Tail(items), DedupeSet(dedupeMap, it.fp, it.prev + 1), opts,
                      now, Append(done, it))

EmptyMap == [k \in {} |-> 0]

LoopLocals(items, opts, now) == LoopFrom(items, EmptyMap, opts, now, <<>>)

RECURSIVE SumWeights(_, _)
\* the running sums of the loop; which names the summed local
SumWeights(locals, which) ==
    IF locals = <<>> THEN 0
    ELSE locals[1][which] + SumWeights(Tail(locals), which)

RECURSIVE SumThemeShares(_, _)
SumThemeShares(locals, name) ==
    IF locals = <<>> THEN 0
    ELSE Len(SelectSeq(locals[1].themes, LAMBDA t : t = name)) * locals[1].w
         + SumThemeShares(Tail(locals), name)

\* a themeMap that holds the named themes only
ThemeEffCountNamedOnly(locals, name) ==
    IF name = "Other" THEN 0 ELSE SumThemeShares(locals, name)

\* themeMap[name].effCount after the loop
ThemeEffCount(locals, name) == SumThemeShares(locals, name)

(***************************************************************************)
(* computeAdjustedAggregates: the texts collected per theme and the phrase *)
(* extraction over their 2-grams and 3-grams.                              *)
(***************************************************************************)
RECURSIVE NegTextsFrom(_, _, _, _, _)
\* themeMap[name].negTexts after the loop: one push for each occurrence of the
\* theme in the list of a record of negative polarity with a non-empty text
NegTextsFrom(items, locals, name, phraseLimit, negTexts) ==
    IF items = <<>> THEN negTexts
    ELSE LET r == items[1]
             pushes == IF IsNegativePolarity(locals[1].s_final) /\ r.review_text # <<>>
                       THEN Len(SelectSeq(locals[1].themes, LAMBDA t : t = name))
                       ELSE 0
             room == Max(0, phraseLimit - Len(negTexts))
             n == IF pushes < room THEN pushes ELSE room
         IN  NegTextsFrom(Tail(items), Tail(locals), name, phraseLimit,
                          negTexts \o [i \in 1..n |-> r.review_text])

\* texts.slice(-phraseLimit)
LastOf(texts, phraseLimit) ==
    IF Len(texts) =< phraseLimit THEN texts
    ELSE SubSeq(texts, Len(texts) - phraseLimit + 1, Len(texts))

stopWords ==
    { <<"t", "h", "e">>, <<"a", "n", "d">>, <<"i", "s">>, <<"i", "t">>,
      <<"t", "o">>, <<"a">>, <<"f", "o", "r">>, <<"o", "f">>, <<"i", "n">>,
      <<"o", "n">>, <<"t", "h", "i", "s">>, <<"t", "h", "a", "t">>,
      <<"w", "i", "t", "h">>, <<"w", "a", "s">>, <<"a", "r", "e">>,
      <<"v", "e", "r", "y">>, <<"n", "o", "t">>, <<"n", "o">>, <<"i">> }

RECURSIVE SplitFrom(_, _, _)
\* s.split(" ")
SplitFrom(s, current, found) ==
    IF s = <<>> THEN Append(found, current)
    ELSE IF s[1] = " "
         THEN SplitFrom(Tail(s), <<>>, Append(found, current))
         ELSE SplitFrom(Tail(s), Append(current, s[1]), found)

\* s.split(" ").filter(tok => tok && !stopWords.has(tok))
TokensOf(s) ==
    SelectSeq(SplitFrom(s, <<>>, <<>>), LAMBDA tok : tok # <<>> /\ tok \notin stopWords)

\* `${tokens[i]} ${tokens[i+1]}`
Gram2(tokens, i) == tokens[i] \o <<" ">> \o tokens[i + 1]

\* `${tokens[i]} ${tokens[i+1]} ${tokens[i+2]}`
Gram3(tokens, i) == tokens[i] \o <<" ">> \o tokens[i + 1] \o <<" ">> \o tokens[i + 2]

\* gramCounts.set(g, (gramCounts.get(g) || 0) + 1): a Map keeps insertion order
CountGram(gramCounts, g) ==
    IF \E k \in DOMAIN gramCounts : gramCounts[k].phrase = g
    THEN [k \in DOMAIN gramCounts |->
            IF gramCounts[k].phrase = g
            THEN [gramCounts[k] EXCEPT !.count = @ + 1]
            ELSE gramCounts[k]]
    ELSE Append(gramCounts, [phrase |-> g, count |-> 1])

RECURSIVE GramsFrom(_, _, _)
\* for (let i = 0; i < tokens.length; ++i): the 2-gram, then the 3-gram
GramsFrom(tokens, i, gramCounts) ==
    IF i > Len(tokens) THEN gramCounts
    ELSE LET with2 == IF i + 1 =< Len(tokens)
                      THEN CountGram(gramCounts, Gram2(tokens, i))
                      ELSE gramCounts
             with3 == IF i + 2 =< Len(tokens)
                      THEN CountGram(with2, Gram3(tokens, i))
                      ELSE with2
         IN  GramsFrom(tokens, i + 1, with3)

RECURSIVE GramCountsOf(_, _)
\* for (const ttext of texts.slice(-phraseLimit))
GramCountsOf(texts, gramCounts) ==
    IF texts = <<>> THEN gramCounts
    ELSE GramCountsOf(Tail(texts),
                      GramsFrom(TokensOf(sanitizeText(texts[1])), 1, gramCounts))

RECURSIVE InsertByCount(_, _)
\* one entry put into a list sorted by (a, b) => b[1] - a[1], after its equals
InsertByCount(sorted, e) ==
    IF sorted = <<>> THEN <<e>>
    ELSE IF e.count > sorted[1].count THEN <<e>> \o sorted
         ELSE <<sorted[1]>> \o InsertByCount(Tail(sorted), e)

RECURSIVE SortByCount(_, _)
\* Array.prototype.sort is stable
SortByCount(entries, sorted) ==
    IF entries = <<>> THEN sorted
    ELSE SortByCount(Tail(entries), InsertByCount(sorted, entries[1]))

\* how many phrases a theme reports
TopPhraseCount == 4

\* .slice(0, 4)
SliceTop(sorted) == SubSeq(sorted, 1, IF Len(sorted) < TopPhraseCount THEN Len(sorted) ELSE TopPhraseCount)

\* topPhrasesByTheme[name]
TopPhrasesOf(items, locals, name, phraseLimit) ==
    LET texts == NegTextsFrom(items, locals, name, phraseLimit, <<>>)
    IN  SliceTop(SortByCount(GramCountsOf(LastOf(texts, phraseLimit), <<>>), <<>>))

\* rawPos / weightedTotal with toFixed(4), in units of 1/Scale; tiny keeps the
\* quotient of an empty batch at 0 and puts an exact half below the half
Percentage(raw, weightedTotal) ==
    IF weightedTotal = 0 THEN 0
    ELSE LET n == raw * Scale
         IN  (n \div weightedTotal) + (IF 2 * (n % weightedTotal) > weightedTotal THEN 1 ELSE 0)

\* const insufficientData = totalEff <= 5
IsInsufficientInclusive(totalEff) == totalEff =< 5 * Scale

\* const insufficientData = totalEff < 5
IsInsufficient(totalEff) == totalEff < 5 * Scale

\* totalEff.toFixed(4), as for the other sums: four decimals, the unit of the sums
toFixed4(x) == x

\* Number(totalEff.toFixed(3)): the nearest multiple of 1/1000
toFixed3(x) == ((x + (Scale \div 2000)) \div (Scale \div 1000)) * (Scale \div 1000)

\* the returned snapshot (sentiment totals, theme statistics, phrases, flag)
\* built from the sums of the loop
SnapshotOf(items, locals, opts) ==
    LET rawPos == SumWeights(locals, "posContrib")
        rawNeg == SumWeights(locals, "negContrib")
        rawNeu == SumWeights(locals, "neuContrib")
        totalEff == SumWeights(locals, "reviewWeight")
    IN  [present |-> TRUE,
         sentiment |-> [positive |-> Percentage(rawPos, rawPos + rawNeg + rawNeu),
                        negative |-> Percentage(rawNeg, rawPos + rawNeg + rawNeu),
                        neutral |-> Percentage(rawNeu, rawPos + rawNeg + rawNeu),
                        rawPositive |-> rawPos, rawNegative |-> rawNeg,
                        rawNeutral |-> rawNeu, totalEffective |-> toFixed3(totalEff)],
         themeStats |-> [t \in ThemeNames |-> ThemeEffCount(locals, t)],
         topPhrasesByTheme |->
           [t \in ThemeNames |-> TopPhrasesOf(items, locals, t, opts.phraseLimit)],
         insufficientData |-> IsInsufficient(totalEff)]

computeAdjustedAggregates(items, opts, now) ==
    SnapshotOf(items, LoopLocals(items, opts, now), opts)

NoAggregates ==
    [present |-> FALSE,
     sentiment |-> [positive |-> 0, negative |-> 0, neutral |-> 0,
                    rawPositive |-> 0, rawNegative |-> 0, rawNeutral |-> 0,
                    totalEffective |-> 0],
     themeStats |-> [t \in ThemeNames |-> 0],
     topPhrasesByTheme |-> [t \in ThemeNames |-> <<>>],
     insufficientData |-> FALSE]

(***************************************************************************)
(* Sentiment Analyzer (backend, Python): the lexicon of four tiers and the *)
(* scoring pipeline: lower case, punctuation read as spaces, tokens split  *)
(* on whitespace, a scope of three tokens after each negation trigger,     *)
(* the sum of the signed weights, the clamped score and the label.  The    *)
(* score is held in units of 1/MAX_WEIGHT.                                 *)
(***************************************************************************)
STRONG_POSITIVE ==
    { <<"l", "o", "v", "e">>, <<"e", "x", "c", "e", "l", "l", "e", "n", "t">>,
      <<"p", "e", "r", "f", "e", "c", "t">>,
      <<"a", "m", "a", "z", "i", "n", "g">>,
      <<"s", "t", "u", "n", "n", "i", "n", "g">>,
      <<"g", "o", "r", "g", "e", "o", "u", "s">>,
      <<"o", "u", "t", "s", "t", "a", "n", "d", "i", "n", "g">> }

MODERATE_POSITIVE ==
    { <<"s", "h", "i", "n", "y">>, <<"e", "l", "e", "g", "a", "n", "t">>,
      <<"c", "o", "m", "f", "o", "r", "t", "a", "b", "l", "e">>,
      <<"p", "r", "e", "m", "i", "u", "m">>,
      <<"b", "e", "a", "u", "t", "i", "f", "u", "l">>,
      <<"g", "r", "e", "a", "t">>, <<"g", "o", "o", "d">>,
      <<"n", "i", "c", "e">> }

MODERATE_NEGATIVE ==
    { <<"t", "a", "r", "n", "i", "s", "h">>, <<"d", "u", "l", "l">>,
      <<"u", "n", "c", "o", "m", "f", "o", "r", "t", "a", "b", "l", "e">>,
      <<"h", "e", "a", "v", "y">>, <<"c", "h", "e", "a", "p">>,
      <<"p", "o", "o", "r">>,
      <<"d", "i", "s", "a", "p", "p", "o", "i", "n", "t", "e", "d">>,
      <<"f", "r", "a", "g", "i", "l", "e">> }

STRONG_NEGATIVE ==
    { <<"b", "r", "o", "k", "e">>, <<"b", "r", "o", "k", "e", "n">>,
      <<"t", "e", "r", "r", "i", "b", "l", "e">>, <<"a", "w", "f", "u", "l">>,
      <<"w", "o", "r", "s", "t">>, <<"h", "o", "r", "r", "i", "b", "l", "e">>,
      <<"d", "i", "s", "g", "u", "s", "t", "i", "n", "g">>,
      <<"h", "a", "t", "e">> }

LexiconWords == STRONG_POSITIVE \cup MODERATE_POSITIVE \cup MODERATE_NEGATIVE \cup STRONG_NEGATIVE

\* one weight for every tier
BaseWeightFlat(tok) ==
    CASE tok \in STRONG_POSITIVE \cup MODERATE_POSITIVE -> 1
      [] tok \in MODERATE_NEGATIVE \cup STRONG_NEGATIVE -> 0 - 1
      [] OTHER -> 0

\* the weight of the tier of a lexicon word
BaseWeight(tok) ==
    CASE tok \in STRONG_POSITIVE -> 2
      [] tok \in MODERATE_POSITIVE -> 1
      [] tok \in MODERATE_NEGATIVE -> 0 - 1
      [] tok \in STRONG_NEGATIVE -> 0 - 2
      [] OTHER -> 0

NegationWords ==
    { <<"n", "o", "t">>, <<"n", "e", "v", "e", "r">>, <<"n", "o">>,
      <<"c", "a", "n", "n", "o", "t">>, <<"c", "a", "n", "'", "t">>,
      <<"w", "o", "n", "'", "t">>, <<"d", "o", "n", "'", "t">> }

SuffixNt == <<"n", "'", "t">>

\* a negation trigger: a negation word or a contraction ending in n't
IsNegationTrigger(tok) ==
    \/ tok \in NegationWords
    \/ Len(tok) >= Len(SuffixNt) /\ SubSeq(tok, Len(tok) - Len(SuffixNt) + 1, Len(tok)) = SuffixNt

\* a scope that reaches one token further
NegationScopeWide == 3 + 1

\* the number of tokens after a trigger that are in its scope
NegationScope == 3

MAX_WEIGHT == 20

\* lower case, punctuation replaced by spaces, split on whitespace
Tokenize(text) ==
    SelectSeq(SplitFrom(CollapseSpaces(ReplaceNonWord(ToLowerCase(text))), <<>>, <<>>),
              LAMBDA tok : tok # <<>>)

RECURSIVE ScanFrom(_, _, _, _)
\* the scan from left to right: a trigger at position i puts the positions
\* i+1 .. i+NegationScope in scope; the weight of a lexicon word at a position
\* in scope is accumulated with its sign inverted
ScanFrom(tokens, i, inScope, acc) ==
    IF i > Len(tokens) THEN acc
    ELSE LET tok == tokens[i]
             scopeNext == IF IsNegationTrigger(tok)
                          THEN inScope \cup ((i + 1)..(i + NegationScope))
                          ELSE inScope
             weight == IF i \in inScope THEN 0 - BaseWeight(tok) ELSE BaseWeight(tok)
             accNext == IF tok \in LexiconWords
                        THEN [raw_total |-> acc.raw_total + weight,
                              applied |-> Append(acc.applied, [at |-> i, weight |-> weight])]
                        ELSE acc
         IN  ScanFrom(tokens, i + 1, scopeNext, accNext)

\* clamp(raw_total / MAX_WEIGHT, -1.0, 1.0)
Clamp(raw_total) ==
    IF raw_total > MAX_WEIGHT THEN MAX_WEIGHT
    ELSE IF raw_total < 0 - MAX_WEIGHT THEN 0 - MAX_WEIGHT
    ELSE raw_total

\* score > 0.2 -> Positive; score < -0.2 -> Negative; otherwise Neutral
LabelOfSymmetric(score) ==
    IF 10 * score > 2 * MAX_WEIGHT THEN "Positive"
    ELSE IF 10 * score < (0 - 2) * MAX_WEIGHT THEN "Negative"
    ELSE "Neutral"

\* score > 0.2 -> Positive; score < -0.1 -> Negative; otherwise Neutral
LabelOf(score) ==
    IF 10 * score > 2 * MAX_WEIGHT THEN "Positive"
    ELSE IF 10 * score < (0 - 1) * MAX_WEIGHT THEN "Negative"
    ELSE "Neutral"

\* the SentimentResult of one review text
AnalyzeSentimentOf(text) ==
    LET tokens == Tokenize(text)
        scan == ScanFrom(tokens, 1, {}, [raw_total |-> 0, applied |-> <<>>])
        score == Clamp(scan.raw_total)
    IN  [tokens |-> tokens, raw_total |-> scan.raw_total, applied |-> scan.applied,
         score |-> score, label |-> LabelOf(score),
         match_count |-> Len(scan.applied)]

(***************************************************************************)
(* Theme Detector, as the README describes it: for each of the themes      *)
(* Comfort, Durability, Appearance a phrase is looked for as a substring   *)
(* of the lowercased text, and only when none is found a keyword is looked *)
(* for between word boundaries; a review of no theme is given 'Other'.     *)
(***************************************************************************)
ComfortKeywords ==
    { <<"l", "i", "g", "h", "t">>, <<"h", "e", "a", "v", "y">>,
      <<"f", "i", "t">>, <<"f", "i", "t", "s">>,
      <<"w", "e", "a", "r", "a", "b", "l", "e">>,
      <<"c", "o", "m", "f", "o", "r", "t", "a", "b", "l", "e">>,
      <<"u", "n", "c", "o", "m", "f", "o", "r", "t", "a", "b", "l", "e">>,
      <<"w", "e", "i", "g", "h", "t">>, <<"t", "i", "g", "h", "t">>,
      <<"l", "o", "o", "s", "e">> }

ComfortPhrases ==
    { <<"e", "a", "s", "y", " ", "t", "o", " ", "w", "e", "a", "r">>,
      <<"h", "a", "r", "d", " ", "t", "o", " ", "w", "e", "a", "r">>,
      <<"c", "o", "m", "f", "o", "r", "t", "a", "b", "l", "e", " ", "t", "o", " ", "w", "e", "a", "r">>,
      <<"t", "o", "o", " ", "h", "e", "a", "v", "y">>,
      <<"t", "o", "o", " ", "l", "i", "g", "h", "t">>,
      <<"f", "i", "t", "s", " ", "w", "e", "l", "l">>,
      <<"d", "o", "e", "s", " ", "n", "o", "t", " ", "f", "i", "t">> }

DurabilityKeywords ==
    { <<"b", "r", "o", "k", "e">>, <<"b", "r", "o", "k", "e", "n">>,
      <<"s", "t", "r", "o", "n", "g">>,
      <<"q", "u", "a", "l", "i", "t", "y">>,
      <<"f", "r", "a", "g", "i", "l", "e">>,
      <<"d", "u", "r", "a", "b", "l", "e">>,
      <<"d", "u", "r", "a", "b", "i", "l", "i", "t", "y">>,
      <<"l", "a", "s", "t", "s">>, <<"l", "a", "s", "t", "i", "n", "g">>,
      <<"s", "t", "u", "r", "d", "y">> }

DurabilityPhrases ==
    { <<"l", "a", "s", "t", "s", " ", "l", "o", "n", "g">>,
      <<"b", "r", "o", "k", "e", " ", "a", "f", "t", "e", "r">>,
      <<"h", "i", "g", "h", " ", "q", "u", "a", "l", "i", "t", "y">>,
      <<"p", "o", "o", "r", " ", "q", "u", "a", "l", "i", "t", "y">>,
      <<"f", "a", "l", "l", "s", " ", "a", "p", "a", "r", "t">>,
      <<"w", "e", "l", "l", " ", "m", "a", "d", "e">>,
      <<"p", "o", "o", "r", "l", "y", " ", "m", "a", "d", "e">> }

AppearanceKeywords ==
    { <<"s", "h", "i", "n", "y">>, <<"d", "u", "l", "l">>,
      <<"d", "e", "s", "i", "g", "n">>, <<"p", "o", "l", "i", "s", "h">>,
      <<"b", "e", "a", "u", "t", "i", "f", "u", "l">>,
      <<"e", "l", "e", "g", "a", "n", "t">>, <<"u", "g", "l", "y">>,
      <<"l", "o", "o", "k", "s">>,
      <<"a", "p", "p", "e", "a", "r", "a", "n", "c", "e">>,
      <<"s", "p", "a", "r", "k", "l", "e">> }

AppearancePhrases ==
    { <<"l", "o", "o", "k", "s", " ", "g", "o", "o", "d">>,
      <<"l", "o", "o", "k", "s", " ", "b", "a", "d">>,
      <<"b", "e", "a", "u", "t", "i", "f", "u", "l", " ", "d", "e", "s", "i", "g", "n">>,
      <<"n", "i", "c", "e", " ", "f", "i", "n", "i", "s", "h">>,
      <<"p", "o", "o", "r", " ", "f", "i", "n", "i", "s", "h">>,
      <<"e", "l", "e", "g", "a", "n", "t", " ", "d", "e", "s", "i", "g", "n">> }

DetectedThemes == <<"Comfort", "Durability", "Appearance">>

ThemeKeywords(theme) ==
    CASE theme = "Comfort" -> ComfortKeywords
      [] theme = "Durability" -> DurabilityKeywords
      [] theme = "Appearance" -> AppearanceKeywords

ThemePhrases(theme) ==
    CASE theme = "Comfort" -> ComfortPhrases
      [] theme = "Durability" -> DurabilityPhrases
      [] theme = "Appearance" -> AppearancePhrases

\* re.search(r'\bkeyword\b', text): the keyword with no word character
\* before it and none after it
WordBoundaryMatch(s, keyword) ==
    \E i \in 1..(Len(s) - Len(keyword) + 1) :
      /\ SubSeq(s, i, i + Len(keyword) - 1) = keyword
      /\ i = 1 \/ ~IsWordChar(s[i - 1])
      /\ i + Len(keyword) - 1 = Len(s) \/ ~IsWordChar(s[i + Len(keyword)])

\* if phrase in text.lower()
PhraseMatch(lowered, theme) == \E p \in ThemePhrases(theme) : Includes(lowered, p)

KeywordMatch(lowered, theme) ==
    \E k \in ThemeKeywords(theme) : WordBoundaryMatch(lowered, k)

\* a theme is assigned by a phrase, or else by a keyword
ThemeMatches(text, theme) ==
    LET lowered == ToLowerCase(text)
    IN  IF PhraseMatch(lowered, theme) THEN TRUE ELSE KeywordMatch(lowered, theme)

\* 'Other' is added to every list
DetectThemesWithOther(text) ==
    SelectSeq(DetectedThemes, LAMBDA theme : ThemeMatches(text, theme)) \o <<"Other">>

\* the theme list of a review text
DetectThemes(text) ==
    LET matched == SelectSeq(DetectedThemes, LAMBDA theme : ThemeMatches(text, theme))
    IN  IF matched = <<>> THEN <<"Other">> ELSE matched

(***************************************************************************)
(* Inputs: feedback batches, aggregated sentiment and theme objects.       *)
(***************************************************************************)
AllThemes == <<"Durability", "Comfort", "Appearance">>

GeneralPool ==
    { Rec("Rings", 5, "Positive", 9, <<"Appearance">>, TxtLove),
      Rec("Rings", 4, "Negative", 9, <<"Durability">>, TxtTarnish),
      Rec("Rings", 1, "Negative", 5, <<"Durability", "Comfort">>, TxtTarnishLow),
      Rec("Rings", 4, "Negative", 5, <<"Appearance">>, TxtLove),
      Rec("Earrings", 2, "Positive", 9, <<"Comfort">>, TxtHeavy),
      Rec("Earrings", 3, "Neutral", 3, <<"Other">>, TxtClasp),
      Rec("Earrings", 1, "Negative", 9, <<"Comfort", "Appearance">>, TxtUncomfortable),
      Rec("Earrings", 5, "Positive", 5, <<"Durability">>, TxtPackaging) }

QuickWinTexts ==
    { TxtTarnish, TxtTarnishLow, TxtClasp, TxtHeavy, TxtPackaging,
      TxtInstructions, TxtDamaged }

DedupeTexts ==
    { TxtTarnish, TxtTarnishLow, TxtDotted, TxtJoined, TxtSpaced, TxtPlain }

TextRec(text) == Rec("Rings", 3, "Neutral", 3, <<"Other">>, text)

SeqsUpTo(pool, n) == UNION { [1..k -> pool] : k \in 0..n }

\* a copies of A, then b copies of B, then c copies of C
Blocks(A, B, C, a, b, c) ==
    [i \in 1..(a + b + c) |-> IF i =< a THEN A ELSE IF i =< a + b THEN B ELSE C]

BlocksOf(A, B, C) ==
    { Blocks(A, B, C, a, b, c) :
        <<a, b, c>> \in { t \in (0..MaxShare) \X (0..MaxShare) \X (0..MaxShare) :
                            t[1] + t[2] + t[3] =< MaxShare } }

ShareBatches ==
    BlocksOf(Rec("Rings", 2, "Negative", 9, AllThemes, TxtTarnish),
             Rec("Rings", 3, "Negative", 5, AllThemes, TxtHeavy),
             Rec("Earrings", 4, "Positive", 9, AllThemes, TxtLove))

ProductBatches ==
    BlocksOf(Rec("Rings", 5, "Positive", 9, <<"Appearance">>, TxtLove),
             Rec("Rings", 4, "Neutral", 3, <<"Other">>, TxtPackaging),
             Rec("Earrings", 1, "Negative", 9, <<"Durability">>, TxtTarnish))
      \cup
    BlocksOf(Rec("Rings", 3, "Negative", 9, <<"Comfort">>, TxtHeavy),
             Rec("Rings", 2, "Positive", 9, <<"Comfort">>, TxtLove),
             Rec("Earrings", 5, "Negative", 9, <<"Other">>, TxtClasp))

ComfortBatches ==
    BlocksOf(Rec("Rings", 4, "Positive", 9, <<"Comfort">>, TxtHeavy),
             Rec("Rings", 5, "Positive", 9, <<"Comfort">>, TxtLove),
             Rec("Earrings", 2, "Negative", 9, <<"Comfort">>, TxtLove))

RuleBatches ==
    SeqsUpTo(GeneralPool, MaxBatch)
      \cup { [i \in DOMAIN q |-> TextRec(q[i])] : q \in SeqsUpTo(QuickWinTexts, MaxBatch) }
      \cup ShareBatches
      \cup ProductBatches

SmallBatches ==
    { <<>>,
      << Rec("Rings", 1, "Negative", 9, <<"Durability">>, TxtTarnish) >>,
      << Rec("Rings", 5, "Positive", 9, <<"Appearance">>, TxtLove),
         Rec("Rings", 4, "Negative", 9, <<"Comfort">>, TxtHeavy) >> }

HealthySentiment == SentimentOf(10, 6, 3, 30, 70)
UnhealthySentiment == SentimentOf(10, 3, 6, -20, 60)

FewThemes == ThemesOf(5, 2, 5, 1)
ManyThemes == ThemesOf(10, 6, 10, 0)

Triple(s, t, f) == [sentiment |-> s, themes |-> t, feedback |-> f]

\* what the three endpoints may answer: complete data, one null body next to
\* a one-record collection, or three null bodies
ServerData ==
    { Triple(UnhealthySentiment, FewThemes, Given(b)) : b \in SmallBatches }
      \cup { Triple(s, t, Given(b)) :
               s \in {NoSentiment, UnhealthySentiment},
               t \in {NoThemes, FewThemes},
               b \in { c \in SmallBatches : Len(c) = 1 } }
      \cup { Triple(UnhealthySentiment, FewThemes, Absent),
             Triple(NoSentiment, NoThemes, Absent) }

RuleInputs ==
    { Triple(s, t, Given(b)) :
        s \in {HealthySentiment, UnhealthySentiment},
        t \in {FewThemes, ManyThemes},
        b \in ShareBatches \cup SmallBatches }
      \cup { Triple(HealthySentiment, t, Given(b)) :
               t \in {FewThemes, ManyThemes}, b \in ComfortBatches }
      \cup { Triple(UnhealthySentiment, FewThemes, Given(b)) : b \in RuleBatches }
      \cup ServerData

\* records for the phrase extraction and the theme shares: ratings against
\* labels, lists of no, one, two, three and repeated labels, an empty text,
\* an older and an undated record
PhrasePool ==
    { Rec("Rings", 1, "Negative", 9, <<"Durability">>, TxtClaspBroke),
      Rec("Rings", 2, "Positive", 9, <<"Durability", "Comfort">>, TxtChain),
      Rec("Rings", 3, "Negative", 9, <<"Durability">>, TxtChain),
      RecAt(Rec("Rings", 5, "Positive", 5, AllThemes, TxtClaspBroke), 0 - 30),
      Rec("Earrings", 1, "Negative", 1, <<>>, TxtClaspBroke),
      Undated(Rec("Earrings", 1, "Negative", 9, <<"Comfort", "Comfort">>, <<>>)) }

\* a records of confidence 1.0 and b records of confidence 0.5, all of
\* different texts
WeightBatches ==
    { [i \in 1..(a + b) |->
         Rec("Rings", 4, "Positive", IF i =< a THEN 10 ELSE 5, <<"Appearance">>,
             Numbered(TxtLove, i))] :
        <<a, b>> \in { t \in (0..MaxWeighted) \X (0..MaxWeighted) : t[1] + t[2] =< MaxWeighted } }

\* batches with a record whose created_at is one or two half-lives later
\* than the first reading of the clock
FutureBatches ==
    LET future == RecAt(Rec("Rings", 5, "Positive", 9, <<"Appearance">>, TxtLove), 60)
        soon == RecAt(Rec("Rings", 1, "Negative", 5, <<"Durability">>, TxtTarnish), 30)
        past == RecAt(Rec("Earrings", 4, "Positive", 9, <<"Comfort">>, TxtHeavy), 0 - 30)
    IN  { <<future>>, <<soon>>, <<past, future>>, <<soon, past, future>> }

\* four records of weight 1.0 and four records of one text whose weights
\* are 0.5, 0.25 / sqrt(2), 0.3 / sqrt(3) and 0.3 / 2: effective_total is
\* 4.99998
RoundingBatch ==
    [i \in 1..4 |-> Rec("Rings", 4, "Positive", 10, <<"Appearance">>, Numbered(TxtLove, i))]
      \o << Rec("Rings", 2, "Negative", 5, <<"Durability">>, TxtTarnish),
            RecAt(Rec("Rings", 2, "Negative", 5, <<"Durability">>, TxtTarnish), 0 - 30),
            Rec("Rings", 1, "Negative", 3, <<"Durability">>, TxtTarnish),
            Rec("Rings", 3, "Neutral", 3, <<"Durability">>, TxtTarnish) >>

AggBatches ==
    SeqsUpTo(GeneralPool, MaxBatch - 1)
      \cup FutureBatches
      \cup {RoundingBatch}
      \cup { [i \in DOMAIN q |-> TextRec(q[i])] : q \in SeqsUpTo(DedupeTexts, MaxBatch) }
      \cup SeqsUpTo(PhrasePool, MaxBatch)
      \cup WeightBatches

\* the options of a call: the defaults, or a phrase limit of two texts
AggOpts == { DefaultOpts, [DefaultOpts EXCEPT !.phraseLimit = 2] }

\* the end-to-end scenario: six records rated 5 with positive text and four
\* records rated 1, tagged Durability, whose text contains 'broke' and
\* 'tarnish'.  The six have the same or different texts, a confidence, a
\* day, and k of them are tagged Durability as well; so have the four.
ScenarioBatch(samePos, confPos, dayPos, k, sameNeg, confNeg, negFirst) ==
    LET pos == [i \in 1..6 |->
                  RecAt(Rec("Rings", 5, "Positive", confPos,
                            IF i =< k THEN <<"Durability">> ELSE <<"Appearance">>,
                            IF samePos THEN TxtLove ELSE Numbered(TxtLove, i)),
                        dayPos)]
        neg == [i \in 1..4 |->
                  Rec("Rings", 1, "Negative", confNeg, <<"Durability">>,
                      IF sameNeg THEN TxtBrokeTarnish ELSE Numbered(TxtBrokeTarnish, i))]
    IN  IF negFirst THEN neg \o pos ELSE pos \o neg

ScenarioBatches ==
    { ScenarioBatch(samePos, confPos, dayPos, k, sameNeg, confNeg, negFirst) :
        samePos \in BOOLEAN, confPos \in {2, 10}, dayPos \in {0, 0 - 30}, k \in {0, 5, 6},
        sameNeg \in BOOLEAN, confNeg \in {5, 10}, negFirst \in BOOLEAN }

\* review texts: up to MaxTokens words, and texts with capitals and punctuation
SentimentWords ==
    { <<"n", "o", "t">>, <<"n", "e", "v", "e", "r">>, <<"l", "o", "v", "e">>,
      <<"g", "o", "o", "d">>, <<"h", "e", "a", "v", "y">>, <<"i", "t">> }

RECURSIVE JoinWords(_)
JoinWords(words) ==
    IF words = <<>> THEN <<>>
    ELSE IF Len(words) = 1 THEN words[1]
    ELSE words[1] \o <<" ">> \o JoinWords(Tail(words))

SentimentTexts ==
    { JoinWords(ws) : ws \in SeqsUpTo(SentimentWords, MaxTokens) }
      \cup { TxtLove, TxtHeavy, TxtTarnish, TxtBrokeTarnish, TxtChain }

\* review texts for the Theme Detector: up to MaxThemeWords words, among them
\* keywords, the halves of phrases and a word that only contains a keyword,
\* and texts with capitals and punctuation
ThemeWords ==
    { <<"h", "e", "a", "v", "y">>, <<"b", "r", "o", "k", "e">>,
      <<"s", "h", "i", "n", "y">>, <<"l", "i", "g", "h", "t", "e", "r">>,
      <<"w", "e", "l", "l">>, <<"m", "a", "d", "e">>, <<"i", "t">> }

TxtBeautiful ==
    <<"B", "e", "a", "u", "t", "i", "f", "u", "l", " ", "r", "i", "n", "g", " ",
      "b", "u", "t", " ", "b", "r", "o", "k", "e", " ", "a", "f", "t", "e", "r", " ",
      "2", " ", "w", "e", "e", "k", "s", ",", " ", "v", "e", "r", "y", " ",
      "d", "i", "s", "a", "p", "p", "o", "i", "n", "t", "e", "d">>
TxtEasyToWear == <<"E", "a", "s", "y", " ", "t", "o", " ", "w", "e", "a", "r", "!">>

ThemeTexts ==
    { JoinWords(ws) : ws \in SeqsUpTo(ThemeWords, MaxThemeWords) }
      \cup { TxtLove, TxtHeavy, TxtTarnish, TxtUncomfortable, TxtClaspBroke,
              TxtBeautiful, TxtEasyToWear }

\* the records stored before a review is submitted: none, or one that was
\* stored without theme labels
StoredBatches ==
    { <<>>, << Rec("Rings", 4, "Positive", 9, <<>>, TxtLove) >> }

(***************************************************************************)
(* State.                                                                  *)
(***************************************************************************)
VARIABLES
    sentimentData,   \* Dashboard state, prop of InsightGenerator
    themeData,       \* Dashboard state, prop of InsightGenerator
    allFeedback,     \* Dashboard state, prop of InsightGenerator
    aggregates,      \* Dashboard state: the snapshot of computeAdjustedAggregates
    aggLocals,       \* the locals of the iterations of its loop
    loading,         \* Dashboard state
    dashError,       \* Dashboard state (error)
    lastRefresh,     \* Dashboard state: number of completed refreshes
    inflight,        \* calls of fetchData suspended at the await
    fetches,         \* calls of fetchData so far
    onRefresh,       \* prop of InsightGenerator: is a refresh callback given
    insights,        \* InsightGenerator state
    showInsights,    \* InsightGenerator state
    isGenerating,    \* InsightGenerator state
    error,           \* InsightGenerator state
    gen,             \* locals of the latest call of handleGenerateInsights
    invocations,     \* calls of handleGenerateInsights on the mounted component
    ignored,         \* those of them that returned at once, isGenerating being true
    utilCall,        \* arguments and result of the latest call of generateInsights
    now,             \* the day number Date.now() gives
    aggCall,         \* options and time of the latest call of computeAdjustedAggregates
    analysis,        \* text and result of the latest call of the Sentiment Analyzer
    detection,       \* text and result of the latest call of the Theme Detector
    form,            \* FeedbackForm state and its submission requests
    refresh          \* the calls of fetchData in flight and the call whose responses are shown

dashVars == <<sentimentData, themeData, allFeedback, aggregates, aggLocals,
              loading, dashError, lastRefresh, inflight, fetches>>
genVars == <<insights, showInsights, isGenerating, error, gen, invocations, ignored>>
vars == <<sentimentData, themeData, allFeedback, aggregates, aggLocals,
          loading, dashError, lastRefresh, inflight, fetches, onRefresh,
          insights, showInsights, isGenerating, error, gen, invocations, ignored, utilCall,
          now, aggCall, analysis,
          detection, form, refresh>>

NoError == "null"
InsufficientMsg == "Insufficient data to generate insights."
RefreshRejectedMsg == "refresh rejected"
FetchFailedMsg == "Failed to load dashboard data."

IdleGen == [pc |-> "idle", sData |-> NoSentiment, tData |-> NoThemes, fData |-> Absent]
NoAggCall == [opts |-> DefaultOpts, at |-> 0]
NoAnalysis == [state |-> "none", text |-> <<>>, result |-> AnalyzeSentimentOf(<<>>)]
\* no call of the Theme Detector yet
NoDetection == [state |-> "none", text |-> <<>>, themes |-> <<>>]

\* the useState initial values of FeedbackForm: an empty form, no error, no
\* request.  timers counts the pending setTimeout callbacks; submits, sent,
\* succeeded and failed count the calls of handleSubmit and the requests,
\* successCalls the calls of onSubmitSuccess
EmptyFormData == [product_id |-> "", product_name |-> <<>>, rating |-> 0, review_text |-> <<>>]
NoErrors == [field \in {} |-> ""]
FreshForm ==
    [formData |-> EmptyFormData, errors |-> NoErrors, isSubmitting |-> FALSE,
     submitMessage |-> "", timers |-> 0,
     submits |-> 0, sent |-> 0, succeeded |-> 0, failed |-> 0, successCalls |-> 0]

\* no call of fetchData in flight, the responses of call k shown
RefreshDone(k) == [pending |-> {}, shown |-> k]

NoUtilCall ==
    [state |-> "none", sData |-> NoSentiment, tData |-> NoThemes, fData |-> Absent,
     out |-> <<>>]

\* useState initial values of InsightGenerator
FreshComponent ==
    /\ insights = <<>>
    /\ showInsights = FALSE
    /\ isGenerating = FALSE
    /\ error = NoError
    /\ gen = IdleGen
    /\ invocations = 0
    /\ ignored = 0

\* Dashboard renders InsightGenerator unless it shows the spinner or the error panel
Mounted == dashError = NoError /\ ~(loading /\ ~sentimentData.present)

(***************************************************************************)
(* InsightGenerator.jsx: handleGenerateInsights.  The handler runs to its  *)
(* end in one step unless it awaits onRefresh().                           *)
(***************************************************************************)
\* if (!sData || !tData || !fData || fData.length === 0)
DataMissing(sData, tData, fData) ==
    ~sData.present \/ ~tData.present \/ ~fData.present \/ Len(fData.items) = 0

\* if (!sData || !tData) throw new Error("Insufficient data ...")
InsufficientDataAggregatesOnly(sData, tData, fData) ==
    ~sData.present \/ ~tData.present

\* if (!sData || !tData || !fData) throw new Error("Insufficient data ...")
InsufficientData(sData, tData, fData) ==
    ~sData.present \/ ~tData.present \/ ~fData.present

\* setInsights(prev => [...prev, ...allInsights])
StoreInsightsAppending(stored, allInsights) == stored \o allInsights

\* setInsights(allInsights): the new list replaces the stored one
StoreInsights(stored, allInsights) == allInsights

\* a catch block that also hides the list: setShowInsights(false)
FinishHidingOnFailure(sData, tData, fData) ==
    /\ isGenerating' = FALSE
    /\ IF InsufficientData(sData, tData, fData)
       THEN /\ error' = InsufficientMsg
            /\ gen' = [pc |-> "failed", sData |-> sData, tData |-> tData, fData |-> fData]
            /\ showInsights' = FALSE
            /\ UNCHANGED insights
       ELSE /\ error' = NoError
            /\ insights' = StoreInsights(insights,
                                         SortInsights(RunAllModules(sData, tData, fData)))
            /\ showInsights' = TRUE
            /\ gen' = [pc |-> "done", sData |-> sData, tData |-> tData, fData |-> fData]

\* from the throw or the rule modules to the end of the finally block
Finish(sData, tData, fData) ==
    /\ isGenerating' = FALSE
    /\ IF InsufficientData(sData, tData, fData)
       THEN /\ error' = InsufficientMsg
            /\ gen' = [pc |-> "failed", sData |-> sData, tData |-> tData, fData |-> fData]
            /\ UNCHANGED <<insights, showInsights>>
       ELSE /\ error' = NoError
            /\ insights' = StoreInsights(insights,
                                         SortInsights(RunAllModules(sData, tData, fData)))
            /\ showInsights' = TRUE
            /\ gen' = [pc |-> "done", sData |-> sData, tData |-> tData, fData |-> fData]

\* a call that does not await: the data are there, or no onRefresh is given
GenerateDirect ==
    /\ Mounted
    /\ ~isGenerating
    /\ invocations < MaxCalls
    /\ invocations' = invocations + 1
    /\ ~(DataMissing(sentimentData, themeData, allFeedback) /\ onRefresh)
    /\ Finish(sentimentData, themeData, allFeedback)
    /\ UNCHANGED <<dashVars, onRefresh, utilCall, ignored, now, aggCall, analysis, detection, form, refresh>>

\* if (isGenerating) return;
GenerateIgnored ==
    /\ Mounted
    /\ isGenerating
    /\ invocations + ignored < MaxCalls
    /\ ignored' = ignored + 1
    /\ UNCHANGED <<dashVars, onRefresh, utilCall, now, aggCall, analysis, detection, form,
                   refresh, insights, showInsights, isGenerating, error, gen, invocations>>

\* a call that finds data missing and suspends at await onRefresh()
GenerateBegin ==
    /\ Mounted
    /\ ~isGenerating
    /\ invocations < MaxCalls
    /\ invocations' = invocations + 1
    /\ DataMissing(sentimentData, themeData, allFeedback) /\ onRefresh
    /\ isGenerating' = TRUE
    /\ error' = NoError
    /\ gen' = [pc |-> "awaitRefresh", sData |-> sentimentData, tData |-> themeData,
               fData |-> allFeedback]
    /\ UNCHANGED <<dashVars, onRefresh, utilCall, ignored, now, aggCall, analysis, detection, form, refresh,
                   insights, showInsights>>

\* onRefresh() resolves with data
RefreshResolve ==
    /\ gen.pc = "awaitRefresh"
    /\ \E data \in ServerData :
         Finish(data.sentiment, data.themes, data.feedback)
    /\ UNCHANGED <<dashVars, onRefresh, utilCall, ignored, now, aggCall, analysis, detection, form, refresh,
                   invocations>>

\* onRefresh() resolves with null: the locals keep the props
RefreshResolveNull ==
    /\ gen.pc = "awaitRefresh"
    /\ Finish(gen.sData, gen.tData, gen.fData)
    /\ UNCHANGED <<dashVars, onRefresh, utilCall, ignored, now, aggCall, analysis, detection, form, refresh,
                   invocations>>

\* onRefresh() rejects: setIsGenerating(false) only at the end of the try block
RefreshRejectNoFinally ==
    /\ gen.pc = "awaitRefresh"
    /\ error' = RefreshRejectedMsg
    /\ gen' = [gen EXCEPT !.pc = "failed"]
    /\ UNCHANGED <<dashVars, onRefresh, utilCall, ignored, now, aggCall, analysis, detection,
                   form, refresh, insights, showInsights, isGenerating, invocations>>

\* onRefresh() rejects: catch and finally
RefreshReject ==
    /\ gen.pc = "awaitRefresh"
    /\ error' = RefreshRejectedMsg
    /\ isGenerating' = FALSE
    /\ gen' = [gen EXCEPT !.pc = "failed"]
    /\ UNCHANGED <<dashVars, onRefresh, utilCall, ignored, now, aggCall, analysis, detection, form, refresh,
                   insights, showInsights, invocations>>

(***************************************************************************)
(* utils/insights.js: a call of generateInsights with the current data.    *)
(* An absent collection is passed as undefined (the default [] applies)    *)
(* or as null (allFeedback.length throws once the aggregates are there).   *)
(***************************************************************************)
UtilGenerate ==
    /\ \E absentAs \in {"undefined", "null"} :
         LET throws == /\ ~allFeedback.present
                       /\ absentAs = "null"
                       /\ sentimentData.present /\ themeData.present
         IN  utilCall' =
               [state |-> IF throws THEN "threw" ELSE "returned",
                sData |-> sentimentData, tData |-> themeData, fData |-> allFeedback,
                out |-> IF throws THEN <<>>
                        ELSE generateInsights(sentimentData, themeData, allFeedback)]
    /\ UNCHANGED <<dashVars, onRefresh, genVars, now, aggCall, analysis, detection, form, refresh>>

(***************************************************************************)
(* utils/aggregates.js: a call of computeAdjustedAggregates on the         *)
(* current feedback with the options the dashboard passes.                 *)
(***************************************************************************)
\* the fingerprint counts the previous call has left behind
KeptMap ==
    LET fps == {aggLocals[i].fp : i \in DOMAIN aggLocals}
    IN  [fp \in fps |-> Cardinality({i \in DOMAIN aggLocals : aggLocals[i].fp = fp})]

\* dedupeMap declared outside the function: it outlives the call
ComputeAggregatesKeepingMap ==
    /\ \E opts \in AggOpts :
         LET locals == LoopFrom(allFeedback.items, KeptMap, opts, now, <<>>)
         IN  /\ aggregates' = SnapshotOf(allFeedback.items, locals, opts)
             /\ aggLocals' = locals
             /\ aggCall' = [opts |-> opts, at |-> now]
    /\ UNCHANGED <<sentimentData, themeData, allFeedback, loading, dashError,
                   lastRefresh, inflight, fetches, onRefresh, genVars, utilCall, now, analysis, detection, form, refresh>>

ComputeAggregates ==
    /\ \E opts \in AggOpts :
         /\ aggregates' = computeAdjustedAggregates(allFeedback.items, opts, now)
         /\ aggLocals' = LoopLocals(allFeedback.items, opts, now)
         /\ aggCall' = [opts |-> opts, at |-> now]
    /\ UNCHANGED <<sentimentData, themeData, allFeedback, loading, dashError,
                   lastRefresh, inflight, fetches, onRefresh, genVars, utilCall, now, analysis, detection, form, refresh>>

\* time passes: Date.now() gives a later day
Tick ==
    /\ now < MaxTicks * DefaultOpts.halfLifeDays
    /\ now' = now + DefaultOpts.halfLifeDays
    /\ UNCHANGED <<dashVars, onRefresh, genVars, utilCall, aggCall, analysis, detection, form, refresh>>

\* the Sentiment Analyzer is applied to the submitted review text
AnalyzeSentiment ==
    /\ analysis.state = "submitted"
    /\ analysis' = [state |-> "returned", text |-> analysis.text,
                    result |-> AnalyzeSentimentOf(analysis.text)]
    /\ UNCHANGED <<dashVars, onRefresh, genVars, utilCall, now, aggCall,
                   detection, form, refresh>>

(***************************************************************************)
(* FeedbackForm.jsx: handleChange, handleRatingChange, validate and        *)
(* handleSubmit, split at await submitFeedback(payload).                   *)
(***************************************************************************)
VALID_PRODUCTS == {"Rings", "Earrings", "Necklaces", "Bracelets", "Pendants", "Other"}

\* formData.review_text.length > 5000
MaxReviewLength == 5000

\* a text of n letters
Filled(n) == [i \in 1..n |-> "a"]

\* what the inputs are given: an option of the select, a product name, the
\* first or the last star, a review text (blank, padded, at the limit and
\* beyond it)
ProductChoices == {"", "Rings", "Other"}
NameChoices == {<<" ">>, <<" ", "C", "h", "a", "r", "m">>}
RatingChoices == {1, 5}
ReviewChoices ==
    { <<" ", "\n">>, <<" ">> \o TxtHeavy \o <<" ">>,
      Filled(MaxReviewLength), Filled(MaxReviewLength + 1) }

\* validate() accepting a review of exactly one character more
validateUpToInclusive(formData) ==
    LET productError ==
          IF formData.product_id = ""
          THEN [field \in {"product_id"} |-> "Please select a product"]
          ELSE IF formData.product_id = "Other" /\ Trim(formData.product_name) = <<>>
               THEN [field \in {"product_name"} |-> "Please enter the product name"]
               ELSE NoErrors
        ratingError ==
          IF formData.rating = 0 \/ formData.rating < 1 \/ formData.rating > 5
          THEN [field \in {"rating"} |-> "Please select a rating between 1 and 5"]
          ELSE NoErrors
        reviewError ==
          IF formData.review_text = <<>> \/ Trim(formData.review_text) = <<>>
          THEN [field \in {"review_text"} |-> "Please enter a review"]
          ELSE IF Len(formData.review_text) > MaxReviewLength + 1
               THEN [field \in {"review_text"} |-> "Review cannot exceed 5000 characters"]
               ELSE NoErrors
    IN  productError @@ ratingError @@ reviewError

\* const validate = () => ...: newErrors
validate(formData) ==
    LET productError ==
          IF formData.product_id = ""
          THEN [field \in {"product_id"} |-> "Please select a product"]
          ELSE IF formData.product_id = "Other" /\ Trim(formData.product_name) = <<>>
               THEN [field \in {"product_name"} |-> "Please enter the product name"]
               ELSE NoErrors
        ratingError ==
          IF formData.rating = 0 \/ formData.rating < 1 \/ formData.rating > 5
          THEN [field \in {"rating"} |-> "Please select a rating between 1 and 5"]
          ELSE NoErrors
        reviewError ==
          IF formData.review_text = <<>> \/ Trim(formData.review_text) = <<>>
          THEN [field \in {"review_text"} |-> "Please enter a review"]
          ELSE IF Len(formData.review_text) > MaxReviewLength
               THEN [field \in {"review_text"} |-> "Review cannot exceed 5000 characters"]
               ELSE NoErrors
    IN  productError @@ ratingError @@ reviewError

\* if (errors[name]) setErrors(prev => ({ ...prev, [name]: '' }))
ClearError(errors, name) ==
    IF name \in DOMAIN errors /\ errors[name] # ""
    THEN [errors EXCEPT ![name] = ""]
    ELSE errors

FormFrame ==
    UNCHANGED <<dashVars, onRefresh, genVars, utilCall, now, aggCall, analysis, detection,
                refresh>>

\* handleChange on the select, the name input or the textarea
HandleChange ==
    /\ \E name \in {"product_id", "product_name", "review_text"} :
         \E value \in (CASE name = "product_id" -> ProductChoices
                         [] name = "product_name" -> NameChoices
                         [] name = "review_text" -> ReviewChoices) :
           form' = [form EXCEPT !.formData[name] = value,
                                !.errors = ClearError(@, name),
                                !.submitMessage = ""]
    /\ FormFrame

\* handleRatingChange(star)
HandleRatingChange ==
    /\ \E star \in RatingChoices :
         form' = [form EXCEPT !.formData.rating = star,
                              !.errors = ClearError(@, "rating")]
    /\ FormFrame

\* handleSubmit up to the await; the submit button is disabled while a
\* request is in flight
HandleSubmit ==
    /\ ~form.isSubmitting
    /\ form.submits < MaxSubmits
    /\ LET newErrors == validate(form.formData)
       IN  IF DOMAIN newErrors # {}
           THEN form' = [form EXCEPT !.errors = newErrors, !.submits = @ + 1]
           ELSE form' = [form EXCEPT !.errors = newErrors, !.submits = @ + 1,
                                     !.isSubmitting = TRUE, !.submitMessage = "",
                                     !.sent = @ + 1]
    /\ FormFrame

\* submitFeedback(payload) resolves: the form is reset, onSubmitSuccess is
\* called and the message is set to be cleared after 3 seconds
SubmitResolve ==
    /\ form.isSubmitting
    /\ form' = [form EXCEPT !.submitMessage = "Feedback submitted successfully.",
                            !.formData = EmptyFormData,
                            !.errors = NoErrors,
                            !.successCalls = @ + 1,
                            !.succeeded = @ + 1,
                            !.timers = @ + 1,
                            !.isSubmitting = FALSE]
    /\ FormFrame

\* submitFeedback(payload) rejects: catch and finally
SubmitReject ==
    /\ form.isSubmitting
    /\ form' = [form EXCEPT !.submitMessage = "Submission failed. Try again.",
                            !.failed = @ + 1,
                            !.isSubmitting = FALSE]
    /\ FormFrame

\* setTimeout(() => setSubmitMessage(''), 3000)
MessageTimeout ==
    /\ form.timers > 0
    /\ form' = [form EXCEPT !.submitMessage = "", !.timers = @ - 1]
    /\ FormFrame

\* a submitted review is analysed once, when its record is created: the
\* Theme Detector gives its theme list and the record is stored with it
DetectAndStore ==
    /\ detection.state = "submitted"
    /\ LET themes == DetectThemes(detection.text)
           label == AnalyzeSentimentOf(detection.text).label
       IN  /\ detection' = [state |-> "returned", text |-> detection.text, themes |-> themes]
           /\ allFeedback' =
                Given(Append(allFeedback.items,
                             Rec("Rings", 3, label, 5, themes, detection.text)))
    /\ UNCHANGED <<sentimentData, themeData, aggregates, aggLocals, loading, dashError,
                   lastRefresh, inflight, fetches, onRefresh, genVars, utilCall, now,
                   aggCall, analysis, form, refresh>>

(***************************************************************************)
(* Dashboard.jsx: fetchData, split at its await.                           *)
(***************************************************************************)
\* InsightGenerator is unmounted and its state discarded when the dashboard
\* stops rendering it; a later mount starts from the useState initial values
ComponentAfter(mountedNext) ==
    IF mountedNext
    THEN UNCHANGED genVars
    ELSE /\ insights' = <<>>
         /\ showInsights' = FALSE
         /\ isGenerating' = FALSE
         /\ error' = NoError
         /\ gen' = IdleGen
         /\ invocations' = 0
         /\ ignored' = 0

\* who can call fetchData: the mount effect, once; a click on Refresh or on
\* Retry, which are rendered unless the spinner is; the onSubmitSuccess of a
\* form that has been rendered, which it is after a first successful fetch
CanStartFetch ==
    \/ fetches = 0
    \/ ~(loading /\ ~sentimentData.present)
    \/ lastRefresh > 0

\* setLoading(true); setError(null); the three requests are sent.  The call
\* is the one of the mount effect, of handleManualRefresh or of
\* handleSubmitSuccess; it is numbered by its start, and at most limit
\* calls are followed
FetchBeginUpTo(limit) ==
    /\ fetches < limit
    /\ CanStartFetch
    /\ fetches' = fetches + 1
    /\ inflight' = inflight + 1
    /\ refresh' = [refresh EXCEPT !.pending = @ \cup {fetches + 1}]
    /\ loading' = TRUE
    /\ dashError' = NoError
    /\ ComponentAfter(sentimentData.present)
    /\ UNCHANGED <<sentimentData, themeData, allFeedback, aggregates, aggLocals,
                   lastRefresh, onRefresh, utilCall, now, aggCall, analysis,
                   detection, form>>

FetchBegin == FetchBeginUpTo(MaxFetch)

\* the same call where overlapping refreshes are followed
FetchStart == FetchBeginUpTo(MaxRefresh)

\* Promise.all of call k resolves: the setters, the aggregates, finally
\* setLoading(false)
FetchResolve ==
    /\ inflight > 0
    /\ inflight' = inflight - 1
    /\ \E k \in refresh.pending :
         refresh' = [pending |-> refresh.pending \ {k}, shown |-> k]
    /\ \E data \in ServerData :
         /\ sentimentData' = data.sentiment
         /\ themeData' = data.themes
         /\ allFeedback' = data.feedback
         /\ aggregates' = computeAdjustedAggregates(data.feedback.items, DefaultOpts, now)
         /\ aggLocals' = LoopLocals(data.feedback.items, DefaultOpts, now)
    /\ aggCall' = [opts |-> DefaultOpts, at |-> now]
    /\ lastRefresh' = lastRefresh + 1
    /\ loading' = FALSE
    /\ ComponentAfter(dashError = NoError)
    /\ UNCHANGED <<dashError, fetches, onRefresh, utilCall, now, analysis,
                   detection, form>>

\* Promise.all of call k rejects: catch and finally
FetchReject ==
    /\ inflight > 0
    /\ inflight' = inflight - 1
    /\ \E k \in refresh.pending :
         refresh' = [refresh EXCEPT !.pending = @ \ {k}]
    /\ dashError' = FetchFailedMsg
    /\ loading' = FALSE
    /\ ComponentAfter(FALSE)
    /\ UNCHANGED <<sentimentData, themeData, allFeedback, aggregates, aggLocals,
                   lastRefresh, fetches, onRefresh, utilCall, now, aggCall, analysis,
                   detection, form>>

(***************************************************************************)
(* Specifications.                                                         *)
(***************************************************************************)
\* the dashboard after construction, before the fetch of its mount effect
Init ==
    /\ sentimentData = NoSentiment
    /\ themeData = NoThemes
    /\ allFeedback = Given(<<>>)
    /\ aggregates = NoAggregates
    /\ aggLocals = <<>>
    /\ loading = TRUE
    /\ dashError = NoError
    /\ lastRefresh = 0
    /\ inflight = 0
    /\ fetches = 0
    /\ onRefresh \in BOOLEAN
    /\ FreshComponent
    /\ utilCall = NoUtilCall
    /\ now = 0
    /\ aggCall = NoAggCall
    /\ detection = NoDetection
    /\ form = FreshForm
    /\ refresh = RefreshDone(0)
    /\ analysis = NoAnalysis

Next ==
    \/ FetchBegin
    \/ FetchResolve
    \/ FetchReject
    \/ GenerateDirect
    \/ GenerateBegin
    \/ RefreshResolve
    \/ RefreshResolveNull
    \/ RefreshReject
    \/ GenerateIgnored
    \/ UtilGenerate

Spec == Init /\ [][Next]_vars

\* what happens without a user: the mount effect calls fetchData once
\* (useEffect with an empty dependency list), the three requests of a call
\* settle (axios is given a timeout), and so does an awaited onRefresh
MountEffect == fetches = 0 /\ FetchBegin
FetchSettles == FetchResolve \/ FetchReject
RefreshSettles == RefreshResolve \/ RefreshResolveNull \/ RefreshReject

\* the dashboard and its InsightGenerator, with refreshes that overlap
NextDash ==
    \/ FetchStart
    \/ FetchResolve
    \/ FetchReject
    \/ GenerateDirect
    \/ GenerateBegin
    \/ RefreshResolve
    \/ RefreshResolveNull
    \/ RefreshReject
    \/ GenerateIgnored

SpecDash == Init /\ [][NextDash]_vars

\* the dashboard and its InsightGenerator under the fairness stated above
NextLive ==
    \/ FetchBegin
    \/ FetchResolve
    \/ FetchReject
    \/ GenerateDirect
    \/ GenerateBegin
    \/ RefreshResolve
    \/ RefreshResolveNull
    \/ RefreshReject
    \/ GenerateIgnored

SpecLive ==
    /\ Init
    /\ [][NextLive]_vars
    /\ WF_vars(MountEffect)
    /\ WF_vars(FetchSettles)
    /\ WF_vars(RefreshSettles)

\* the component mounted on given data, the two rule sets and the
\* aggregation applied to them
InitRules ==
    /\ \E data \in RuleInputs :
         /\ sentimentData = data.sentiment
         /\ themeData = data.themes
         /\ allFeedback = data.feedback
    /\ aggregates = NoAggregates
    /\ aggLocals = <<>>
    /\ loading = FALSE
    /\ dashError = NoError
    /\ lastRefresh = 1
    /\ inflight = 0
    /\ fetches = 1
    /\ onRefresh = FALSE
    /\ FreshComponent
    /\ utilCall = NoUtilCall
    /\ now = 0
    /\ aggCall = NoAggCall
    /\ detection = NoDetection
    /\ form = FreshForm
    /\ refresh = RefreshDone(1)
    /\ analysis = NoAnalysis

NextRules ==
    \/ GenerateDirect
    \/ UtilGenerate

SpecRules == InitRules /\ [][NextRules]_vars

\* the aggregation applied to given batches
InitAgg ==
    /\ sentimentData = HealthySentiment
    /\ themeData = FewThemes
    /\ \E b \in AggBatches : allFeedback = Given(b)
    /\ aggregates = NoAggregates
    /\ aggLocals = <<>>
    /\ loading = FALSE
    /\ dashError = NoError
    /\ lastRefresh = 1
    /\ inflight = 0
    /\ fetches = 1
    /\ onRefresh = FALSE
    /\ FreshComponent
    /\ utilCall = NoUtilCall
    /\ now = 0
    /\ aggCall = NoAggCall
    /\ detection = NoDetection
    /\ form = FreshForm
    /\ refresh = RefreshDone(1)
    /\ analysis = NoAnalysis

NextAgg ==
    \/ ComputeAggregates
    \/ Tick

SpecAgg == InitAgg /\ [][NextAgg]_vars

\* the end-to-end scenario: the batch is aggregated and the rules are run
InitScenario ==
    /\ sentimentData = HealthySentiment
    /\ themeData = FewThemes
    /\ \E b \in ScenarioBatches : allFeedback = Given(b)
    /\ aggregates = NoAggregates
    /\ aggLocals = <<>>
    /\ loading = FALSE
    /\ dashError = NoError
    /\ lastRefresh = 1
    /\ inflight = 0
    /\ fetches = 1
    /\ onRefresh = FALSE
    /\ FreshComponent
    /\ utilCall = NoUtilCall
    /\ now = 0
    /\ aggCall = NoAggCall
    /\ detection = NoDetection
    /\ form = FreshForm
    /\ refresh = RefreshDone(1)
    /\ analysis = NoAnalysis

NextScenario ==
    \/ ComputeAggregates
    \/ GenerateDirect

SpecScenario == InitScenario /\ [][NextScenario]_vars

\* a review text is submitted and the Sentiment Analyzer is applied to it
InitSentiment ==
    /\ sentimentData = NoSentiment
    /\ themeData = NoThemes
    /\ allFeedback = Given(<<>>)
    /\ aggregates = NoAggregates
    /\ aggLocals = <<>>
    /\ loading = FALSE
    /\ dashError = NoError
    /\ lastRefresh = 1
    /\ inflight = 0
    /\ fetches = 1
    /\ onRefresh = FALSE
    /\ FreshComponent
    /\ utilCall = NoUtilCall
    /\ now = 0
    /\ aggCall = NoAggCall
    /\ detection = NoDetection
    /\ form = FreshForm
    /\ refresh = RefreshDone(1)
    /\ \E text \in SentimentTexts :
         analysis = [state |-> "submitted", text |-> text, result |-> NoAnalysis.result]

NextSentiment == AnalyzeSentiment

SpecSentiment == InitSentiment /\ [][NextSentiment]_vars

\* the feedback form after construction
InitForm ==
    /\ sentimentData = NoSentiment
    /\ themeData = NoThemes
    /\ allFeedback = Given(<<>>)
    /\ aggregates = NoAggregates
    /\ aggLocals = <<>>
    /\ loading = FALSE
    /\ dashError = NoError
    /\ lastRefresh = 1
    /\ inflight = 0
    /\ fetches = 1
    /\ onRefresh = FALSE
    /\ FreshComponent
    /\ utilCall = NoUtilCall
    /\ now = 0
    /\ aggCall = NoAggCall
    /\ analysis = NoAnalysis
    /\ detection = NoDetection
    /\ form = FreshForm
    /\ refresh = RefreshDone(1)

NextForm ==
    \/ HandleChange
    \/ HandleRatingChange
    \/ HandleSubmit
    \/ SubmitResolve
    \/ SubmitReject
    \/ MessageTimeout

SpecForm == InitForm /\ [][NextForm]_vars

\* a review text is submitted, the Theme Detector is applied to it and the
\* stored records are aggregated
InitThemes ==
    /\ sentimentData = NoSentiment
    /\ themeData = NoThemes
    /\ \E b \in StoredBatches : allFeedback = Given(b)
    /\ aggregates = NoAggregates
    /\ aggLocals = <<>>
    /\ loading = FALSE
    /\ dashError = NoError
    /\ lastRefresh = 1
    /\ inflight = 0
    /\ fetches = 1
    /\ onRefresh = FALSE
    /\ FreshComponent
    /\ utilCall = NoUtilCall
    /\ now = 0
    /\ aggCall = NoAggCall
    /\ analysis = NoAnalysis
    /\ \E text \in ThemeTexts :
         detection = [state |-> "submitted", text |-> text, themes |-> <<>>]
    /\ form = FreshForm
    /\ refresh = RefreshDone(1)

NextThemes ==
    \/ DetectAndStore
    \/ ComputeAggregates

SpecThemes == InitThemes /\ [][NextThemes]_vars

(***************************************************************************)
(* Properties.  After a call of handleGenerateInsights that stored a list  *)
(* (gen.pc = "done"), gen holds the data the rules were run on.            *)
(***************************************************************************)
Generated == gen.pc = "done"
GenItems == gen.fData.items

\* the positions of the records of a batch that satisfy a test
Where(items, Test(_)) == {i \in DOMAIN items : Test(items[i])}

\* the positions of the stored insights with a given message and subject
Emitted(message, subject) ==
    {i \in DOMAIN insights :
       insights[i].message = message /\ insights[i].subject = subject}

\* the rank the specification gives to a priority
RankOf(priority) ==
    CASE priority = "critical" -> 3
      [] priority = "high" -> 2
      [] priority = "medium" -> 1
      [] priority = "low" -> 0

\* the place of the rule of an insight in the evaluation order
RuleOrderOf(insight) ==
    CASE insight.category = "Overall Health" -> 1
      [] insight.category = "Product Quality" -> 2
      [] insight.category = "Product Design" -> 3
      [] insight.category = "Aesthetics" -> 4
      [] insight.category = "Rating Health" -> 5
      [] insight.category = "Data Anomaly" -> 6
      [] insight.category = "Product Performance" -> 7
      [] insight.category = "Quick Win" -> 8

\* C1: the stored insight list is sorted by priority rank descending
\* (critical 3, high 2, medium 1, low 0), and two insights of equal priority
\* stand in rule-evaluation order: overall health, Durability, Comfort,
\* Appearance, rating health, contradictions, per-product rollup, quick wins.
C1_SortedByPriorityThenRule ==
    \A i, j \in DOMAIN insights :
      i < j =>
        \/ RankOf(insights[i].priority) > RankOf(insights[j].priority)
        \/ /\ RankOf(insights[i].priority) = RankOf(insights[j].priority)
           /\ RuleOrderOf(insights[i]) =< RuleOrderOf(insights[j])

\* a list with all four priorities in which the sort moved a medium quick
\* win in front of a low star product and two high insights tie
C1_Witness ==
    /\ Generated
    /\ {insights[i].priority : i \in DOMAIN insights} = {"critical", "high", "medium", "low"}
    /\ \E i, j \in DOMAIN insights :
         /\ i < j
         /\ insights[i].category = "Quick Win"
         /\ insights[j].type = "star"
    /\ \E i, j \in DOMAIN insights :
         /\ i < j
         /\ insights[i].priority = "high" /\ insights[j].priority = "high"
         /\ RuleOrderOf(insights[i]) < RuleOrderOf(insights[j])

RatingInsights == {i \in DOMAIN insights : insights[i].category = "Rating Health"}

RECURSIVE TotalRating(_, _)
\* the sum of the ratings at a set of positions
TotalRating(items, positions) ==
    IF positions = {} THEN 0
    ELSE LET i == CHOOSE x \in positions : TRUE
         IN  items[i].rating + TotalRating(items, positions \ {i})

PositiveRatingNegativeText ==
    "Rating/Sentiment Contradiction (Positive Rating, Negative Text)"
NegativeRatingPositiveText ==
    "Rating/Sentiment Contradiction (Negative Rating, Positive Text)"

\* C6: the 'positive rating, negative text' insight (medium) is emitted iff
\* some record has rating >= 4, label Negative and confidence > 0.5, and
\* reports the number of such records; symmetrically for 'negative rating,
\* positive text' with rating <= 2 and label Positive.
C6_ContradictionCounts ==
    LET highNeg == Where(GenItems, LAMBDA f : f.rating \in {4, 5}
                                              /\ f.sentiment.label = "Negative"
                                              /\ f.sentiment.confidence \in 6..10)
        lowPos == Where(GenItems, LAMBDA f : f.rating \in {1, 2}
                                             /\ f.sentiment.label = "Positive"
                                             /\ f.sentiment.confidence \in 6..10)
    IN  Generated =>
          /\ Cardinality(Emitted(PositiveRatingNegativeText, "")) =
               (IF highNeg = {} THEN 0 ELSE 1)
          /\ \A i \in Emitted(PositiveRatingNegativeText, "") :
               insights[i].n = Cardinality(highNeg) /\ insights[i].priority = "medium"
          /\ Cardinality(Emitted(NegativeRatingPositiveText, "")) =
               (IF lowPos = {} THEN 0 ELSE 1)
          /\ \A i \in Emitted(NegativeRatingPositiveText, "") :
               insights[i].n = Cardinality(lowPos) /\ insights[i].priority = "medium"

\* every record has rating >= 4, label Negative and confidence 0.9, and the
\* rule reports as many records as the batch holds
C6_Witness ==
    /\ Generated
    /\ Len(GenItems) >= 2
    /\ \A i \in DOMAIN GenItems :
         /\ GenItems[i].rating >= 4
         /\ GenItems[i].sentiment.label = "Negative"
         /\ GenItems[i].sentiment.confidence = 9
    /\ \E i \in Emitted(PositiveRatingNegativeText, "") : insights[i].n = Len(GenItems)

\* the records of the generated batch tagged with a theme
Tagged(theme) == Where(GenItems, LAMBDA f : \E k \in DOMAIN f.themes : f.themes[k] = theme)

\* C3: the Durability insight (high) is emitted iff some record is tagged
\* Durability and the share of the Durability-tagged records that are labelled
\* Negative with confidence >= 0.6 is strictly greater than 40%; the Appearance
\* insight (high) likewise with 60%.  A Negative record with confidence below
\* 0.6 does not count toward the share.
C3_ConfidentNegativeShare ==
    LET confident(theme) ==
            {i \in Tagged(theme) : /\ GenItems[i].sentiment.label = "Negative"
                                   /\ GenItems[i].sentiment.confidence >= 6}
        fires(theme, percent) ==
            /\ Tagged(theme) # {}
            /\ Cardinality(confident(theme)) * 100 > percent * Cardinality(Tagged(theme))
    IN  Generated =>
          /\ (Emitted("High Durability Concerns", "") # {}) <=> fires("Durability", 40)
          /\ (Emitted("Appearance/Finish Dissatisfaction", "") # {}) <=> fires("Appearance", 60)

\* the records of the generated batch tagged with a theme and labelled Negative
TaggedNegative(theme) ==
    {i \in Tagged(theme) : GenItems[i].sentiment.label = "Negative"}

\* the Comfort-tagged records of the latest call of generateInsights
UtilComfort ==
    Where(utilCall.fData.items, LAMBDA f : \E k \in DOMAIN f.themes : f.themes[k] = "Comfort")

\* a text mentions a word, whatever the letter case
Mentions(text, word) ==
    \E off \in 0..(Len(text) - Len(word)) :
      \A k \in DOMAIN word : LowerChar[text[off + k]] = word[k]

UtilComfortEmitted ==
    {i \in DOMAIN utilCall.out : utilCall.out[i].type = "comfort"}

UtilReturned ==
    utilCall.state = "returned" /\ utilCall.sData.present /\ utilCall.tData.present

\* C4 as stated: the Comfort rule has two variants, each emitting one medium
\* insight; the per-record variant fires iff some record is tagged Comfort and
\* the share of Comfort-tagged records labelled Negative is > 30%, the
\* aggregate variant iff that negative share is > 50%.  (The aggregate variant
\* is read on calls whose aggregate Comfort count is the number of
\* Comfort-tagged records.)
C4_ComfortNegativeShare ==
    /\ Generated =>
         ((Emitted("Comfort Issues Detected", "") # {}) <=>
            /\ Tagged("Comfort") # {}
            /\ Cardinality(TaggedNegative("Comfort")) * 100 > 30 * Cardinality(Tagged("Comfort")))
    /\ (UtilReturned /\ utilCall.tData.counts["Comfort"] = Cardinality(UtilComfort)) =>
         ((UtilComfortEmitted # {}) <=>
            /\ UtilComfort # {}
            /\ Cardinality({i \in UtilComfort :
                              utilCall.fData.items[i].sentiment.label = "Negative"}) * 100
                 > 50 * Cardinality(UtilComfort))

\* C4 amended: the per-record variant fires iff some record is tagged Comfort
\* and the share of Comfort-tagged records labelled Negative is > 30%; the
\* aggregate variant fires iff the aggregate Comfort count is positive, the
\* collection is non-empty and the Comfort-tagged records that are labelled
\* Negative or whose text mentions 'heavy' or 'uncomfortable' number more than
\* 50% of the aggregate Comfort count.  Each emits one medium insight; at
\* exactly 30% (resp. 50%) the variant does not fire.
C4_ComfortVariants ==
    LET issues == {i \in UtilComfort :
                     \/ utilCall.fData.items[i].sentiment.label = "Negative"
                     \/ Mentions(utilCall.fData.items[i].review_text, WordHeavy)
                     \/ Mentions(utilCall.fData.items[i].review_text, WordUncomfortable)}
        comfortTotal == utilCall.tData.counts["Comfort"]
    IN  /\ Generated =>
             /\ Cardinality(Emitted("Comfort Issues Detected", "")) =
                  (IF /\ Tagged("Comfort") # {}
                      /\ Cardinality(TaggedNegative("Comfort")) * 100
                           > 30 * Cardinality(Tagged("Comfort"))
                   THEN 1 ELSE 0)
             /\ \A i \in Emitted("Comfort Issues Detected", "") :
                  insights[i].priority = "medium"
        /\ UtilReturned =>
             /\ Cardinality(UtilComfortEmitted) =
                  (IF /\ comfortTotal > 0
                      /\ Len(utilCall.fData.items) > 0
                      /\ Cardinality(issues) * 100 > 50 * comfortTotal
                   THEN 1 ELSE 0)
             /\ \A i \in UtilComfortEmitted : utilCall.out[i].priority = "medium"

\* both variants at their thresholds: 3 of 10 Comfort records are Negative
\* and the per-record variant is silent; the comfort issues are exactly half
\* of the aggregate Comfort count and the aggregate variant is silent
C4_Witness ==
    /\ Generated
    /\ Cardinality(Tagged("Comfort")) = 10
    /\ Cardinality(TaggedNegative("Comfort")) = 3
    /\ Emitted("Comfort Issues Detected", "") = {}
    /\ UtilReturned
    /\ utilCall.fData = gen.fData
    /\ utilCall.tData.counts["Comfort"] = 6
    /\ UtilComfortEmitted = {}

ProductIds == {"Rings", "Earrings"}

\* C7: a product group with fewer than 2 records never yields an insight; a
\* group with >= 2 records yields a critical 'underperforming product' insight
\* iff its average rating is < 3.0 and more than 50% of its records are
\* Negative, and a low 'star product' insight iff its average rating is >= 4.5
\* and it has >= 3 records.  No product receives both.
C7_ProductRollup ==
    Generated =>
      \A pid \in ProductIds :
        LET group == Where(GenItems, LAMBDA f : f.product_id = pid)
            count == Cardinality(group)
            sum == TotalRating(GenItems, group)
            negative == Cardinality({i \in group : GenItems[i].sentiment.label = "Negative"})
            under == Emitted("Underperforming Product", pid)
            star == Emitted("Star Product", pid)
        IN  /\ count < 2 => (under = {} /\ star = {})
            /\ count >= 2 =>
                 /\ Cardinality(under) =
                      (IF 10 * sum < 30 * count /\ 2 * negative > count THEN 1 ELSE 0)
                 /\ Cardinality(star) =
                      (IF 10 * sum >= 45 * count /\ count >= 3 THEN 1 ELSE 0)
            /\ \A i \in under : insights[i].priority = "critical"
            /\ \A i \in star : insights[i].priority = "low"
            /\ under = {} \/ star = {}

\* a star product whose average is exactly 4.5, next to a product whose single
\* record is rated 1 and Negative and which yields nothing
C7_Witness ==
    /\ Generated
    /\ Emitted("Star Product", "Rings") # {}
    /\ LET rings == Where(GenItems, LAMBDA f : f.product_id = "Rings")
       IN  10 * TotalRating(GenItems, rings) = 45 * Cardinality(rings)
    /\ LET earrings == Where(GenItems, LAMBDA f : f.product_id = "Earrings")
       IN  /\ Cardinality(earrings) = 1
           /\ \A i \in earrings : GenItems[i].rating = 1
                                  /\ GenItems[i].sentiment.label = "Negative"
    /\ Emitted("Underperforming Product", "Earrings") = {}

QuickWinInsights == {i \in DOMAIN insights : insights[i].category = "Quick Win"}

\* C8: for each of the six quick-win patterns exactly one medium insight is
\* emitted iff the pattern occurs as a case-insensitive substring in the text
\* of at least 2 records; the reported count is the number of matching records
\* (several occurrences in one record count once), and a pattern present in
\* one record only emits nothing.
C8_QuickWins ==
    Generated =>
      /\ Len(patterns) = 6
      /\ \A p \in DOMAIN patterns :
           LET matching == Where(GenItems, LAMBDA f : Mentions(f.review_text, patterns[p].phrase))
               emitted == Emitted("Recurring Issue", patterns[p].name)
           IN  /\ Cardinality(emitted) = (IF Cardinality(matching) >= 2 THEN 1 ELSE 0)
               /\ \A i \in emitted : /\ insights[i].n = Cardinality(matching)
                                     /\ insights[i].priority = "medium"
                                     /\ insights[i].category = "Quick Win"
      /\ \A i \in QuickWinInsights :
           \E p \in DOMAIN patterns : i \in Emitted("Recurring Issue", patterns[p].name)

\* two records that each contain 'clasp' twice, in different letter case, are
\* reported as 2 reviews, while 'tarnish', present in one record, is silent
C8_Witness ==
    /\ Generated
    /\ Len(GenItems) = 3
    /\ \E i \in Emitted("Recurring Issue", "clasp") : insights[i].n = 2
    /\ Cardinality(Where(GenItems, LAMBDA f : f.review_text = TxtClasp)) = 2
    /\ Cardinality(Where(GenItems, LAMBDA f : Mentions(f.review_text, PhraseTarnish))) = 1
    /\ Emitted("Recurring Issue", "tarnish") = {}

OverallHealthInsights == {i \in DOMAIN insights : insights[i].category = "Overall Health"}

Completes ==
    /\ gen'.pc \in {"done", "failed"}
    /\ invocations' = invocations + 1 \/ gen.pc = "awaitRefresh"

C9_FreshOnEachInvocation ==
    [][ /\ (Completes /\ gen'.pc = "done") =>
             insights' = SortInsights(RunAllModules(gen'.sData, gen'.tData, gen'.fData))
        /\ ( /\ Completes /\ gen'.pc = "done" /\ gen.pc = "done"
             /\ gen'.sData = gen.sData /\ gen'.tData = gen.tData /\ gen'.fData = gen.fData )
           => insights' = insights
        /\ (Completes /\ gen'.pc = "failed") => insights' = insights
        /\ insights' # insights =>
             \/ Completes /\ gen'.pc = "done"
             \/ gen' = IdleGen /\ insights' = <<>>
      ]_vars

\* a second invocation has stored a list after the data were refreshed twice
C9_Witness ==
    /\ Generated
    /\ invocations = 2
    /\ lastRefresh = 2
    /\ Len(insights) >= 2
    /\ gen.fData = allFeedback

RECURSIVE WordsFrom(_, _, _)
\* the words of a text: its maximal runs of word characters, in lower case
WordsFrom(text, current, found) ==
    IF text = <<>>
    THEN IF current = <<>> THEN found ELSE Append(found, current)
    ELSE IF text[1] \in WordChars
         THEN WordsFrom(Tail(text), Append(current, LowerChar[text[1]]), found)
         ELSE WordsFrom(Tail(text), <<>>,
                        IF current = <<>> THEN found ELSE Append(found, current))

WordsOf(text) == WordsFrom(text, <<>>, <<>>)

RECURSIVE LettersOf(_)
\* a text without its punctuation and whitespace, in lower case
LettersOf(text) ==
    IF text = <<>> THEN <<>>
    ELSE IF text[1] \in WordChars
         THEN <<LowerChar[text[1]]>> \o LettersOf(Tail(text))
         ELSE LettersOf(Tail(text))

\* f is 1 / sqrt(n) in units of 1/Scale, rounded down
IsInverseRoot(f, n) ==
    /\ f * f * n =< Scale * Scale
    /\ (f + 1) * (f + 1) * n > Scale * Scale

AggTexts == [i \in DOMAIN allFeedback.items |-> allFeedback.items[i].review_text]

\* C10 as stated: the k-th record (0-indexed, in batch order) to carry a
\* fingerprint gets dedupe factor 1/sqrt(k+1), k being the number of earlier
\* records with the same fingerprint, and texts that differ only in letter
\* case, punctuation or whitespace share a fingerprint.
C10_SameLettersShareFingerprint ==
    aggregates.present =>
      /\ Len(aggLocals) = Len(AggTexts)
      /\ \A i \in DOMAIN aggLocals :
           LET earlier == {j \in 1..(i - 1) : LettersOf(AggTexts[j]) = LettersOf(AggTexts[i])}
           IN  IsInverseRoot(aggLocals[i].dedupeFactor, Cardinality(earlier) + 1)

\* C10 amended: the k-th record to carry a fingerprint gets dedupe factor
\* 1/sqrt(k+1), k being the number of earlier records of the batch with the
\* same fingerprint; two texts share a fingerprint iff they have the same
\* words once letter case is folded and every punctuation character is read
\* as a space (punctuation inside a word splits it).  The same text 3 times
\* yields 1, 1/sqrt(2), 1/sqrt(3) in that order.
C10_DedupeFactorBySameWords ==
    aggregates.present =>
      /\ Len(aggLocals) = Len(AggTexts)
      /\ \A i \in DOMAIN aggLocals :
           LET earlier == {j \in 1..(i - 1) : WordsOf(AggTexts[j]) = WordsOf(AggTexts[i])}
           IN  /\ aggLocals[i].prev = Cardinality(earlier)
               /\ IsInverseRoot(aggLocals[i].dedupeFactor, Cardinality(earlier) + 1)
      /\ \A i, j \in DOMAIN aggLocals :
           (aggLocals[i].fp = aggLocals[j].fp) <=> (WordsOf(AggTexts[i]) = WordsOf(AggTexts[j]))

\* a batch of three texts that differ in letter case and punctuation only has
\* the factors 1, 1/sqrt(2), 1/sqrt(3)
C10_Witness ==
    /\ aggregates.present
    /\ AggTexts = <<TxtTarnish, TxtTarnishLow, TxtTarnish>>
    /\ [i \in DOMAIN aggLocals |-> aggLocals[i].dedupeFactor] = <<10000, 7071, 5773>>

RECURSIVE SumSeq(_)
\* the sum of a list of numbers
SumSeq(q) == IF q = <<>> THEN 0 ELSE q[1] + SumSeq(Tail(q))

\* the review weights of the records of the latest aggregation, in batch order
ReviewWeights == [i \in DOMAIN aggLocals |-> aggLocals[i].reviewWeight]

\* C11: the insufficientData flag of a snapshot is true iff effective_total,
\* the sum of the review weights of the batch, is strictly below 5; at
\* exactly 5.0 it is false, and for an empty batch it is true.
C11_InsufficientBelowFive ==
    aggregates.present =>
      /\ aggregates.sentiment.totalEffective = toFixed3(SumSeq(ReviewWeights))
      /\ aggregates.insufficientData <=> (SumSeq(ReviewWeights) < 5 * Scale)
      /\ (Len(allFeedback.items) = 0) => aggregates.insufficientData

\* five records of weight 1.0 have been aggregated: effective_total is exactly
\* 5.0 and the flag is false
C11_Witness ==
    /\ aggregates.present
    /\ Len(allFeedback.items) = 5
    /\ \A i \in DOMAIN aggLocals : aggLocals[i].reviewWeight = Scale
    /\ aggregates.sentiment.totalEffective = 5 * Scale
    /\ ~aggregates.insufficientData

AggItems == allFeedback.items

\* the number of occurrences of a label in a theme list
LabelCount(themes, name) == Cardinality({k \in DOMAIN themes : themes[k] = name})

\* what record i adds to the effective count of a theme, in units of
\* 1/(Scale * ShareScale): review_weight / theme_count for each occurrence of
\* the label, the whole weight to Other when the list is empty
ShareOf(i, name) ==
    LET themes == AggItems[i].themes
        weight == aggLocals[i].reviewWeight * ShareScale
    IN  IF themes = <<>>
        THEN IF name = "Other" THEN weight ELSE 0
        ELSE (LabelCount(themes, name) * weight) \div Len(themes)

ThemeList == <<"Durability", "Comfort", "Appearance", "Other">>

ContribByRating(rating, w, neutralFactor) ==
    CASE rating = 5 -> [pos |-> w, neg |-> 0, neu |-> 0]
      [] rating = 4 -> [pos |-> w \div 2, neg |-> 0, neu |-> (w * neutralFactor) \div 20]
      [] rating = 3 -> [pos |-> 0, neg |-> 0, neu |-> (w * neutralFactor) \div 10]
      [] rating = 2 -> [pos |-> 0, neg |-> w \div 2, neu |-> (w * neutralFactor) \div 20]
      [] rating = 1 -> [pos |-> 0, neg |-> w, neu |-> 0]

\* C13: in the aggregate the polarity comes from the rating alone, never
\* from the sentiment label: a record of weight w adds w to the positive
\* contribution only when rated 5, w to the negative only when rated 1,
\* w * neutralFactor to the neutral only when rated 3, and w/2 to positive
\* (rating 4) or negative (rating 2) plus (w/2) * neutralFactor to neutral; no
\* record adds to both positive and negative; every record adds w to
\* effective_total.
C13_PolarityFromRating ==
    aggregates.present =>
      /\ \A i \in DOMAIN AggItems :
           LET expected == ContribByRating(AggItems[i].rating, aggLocals[i].reviewWeight,
                                           aggCall.opts.neutralFactor)
           IN  /\ aggLocals[i].posContrib = expected.pos
               /\ aggLocals[i].negContrib = expected.neg
               /\ aggLocals[i].neuContrib = expected.neu
               /\ ~(aggLocals[i].posContrib > 0 /\ aggLocals[i].negContrib > 0)
      /\ aggregates.sentiment.rawPositive =
           SumSeq([i \in DOMAIN aggLocals |-> aggLocals[i].posContrib])
      /\ aggregates.sentiment.rawNegative =
           SumSeq([i \in DOMAIN aggLocals |-> aggLocals[i].negContrib])
      /\ aggregates.sentiment.rawNeutral =
           SumSeq([i \in DOMAIN aggLocals |-> aggLocals[i].neuContrib])
      /\ aggregates.sentiment.totalEffective = toFixed3(SumSeq(ReviewWeights))

\* a record rated 4 with the label Negative and a record rated 2 with the
\* label Positive have been aggregated: the first counts as positive, the
\* second as negative
C13_Witness ==
    /\ aggregates.present
    /\ Len(AggItems) = 2
    /\ AggItems[1].rating = 4 /\ AggItems[1].sentiment.label = "Negative"
    /\ AggItems[2].rating = 2 /\ AggItems[2].sentiment.label = "Positive"
    /\ aggLocals[1].posContrib > 0
    /\ aggLocals[2].negContrib > 0
    /\ aggregates.sentiment.rawNeutral > 0

RECURSIVE TaggedNegativeTexts(_, _)
\* the texts of the records from index i on that are tagged with a theme
\* (once for each occurrence of the label; Other when the list is empty) and
\* rated 2 or less, in batch order, empty texts left out
TaggedNegativeTexts(i, name) ==
    IF i > Len(AggItems) THEN <<>>
    ELSE LET r == AggItems[i]
             times == IF r.themes = <<>> THEN (IF name = "Other" THEN 1 ELSE 0)
                      ELSE LabelCount(r.themes, name)
             here == IF r.rating =< 2 /\ r.review_text # <<>>
                     THEN [k \in 1..times |-> r.review_text]
                     ELSE <<>>
         IN  here \o TaggedNegativeTexts(i + 1, name)

\* the first phraseLimit of them
CollectedTexts(name) ==
    LET all == TaggedNegativeTexts(1, name)
        limit == aggCall.opts.phraseLimit
    IN  IF Len(all) =< limit THEN all ELSE SubSeq(all, 1, limit)

\* the words of a text that are not stop words
ContentWords(text) == SelectSeq(WordsOf(text), LAMBDA w : w \notin stopWords)

\* the places <<position, length>> of the 2-word and 3-word sequences of a
\* word list
GramPlaces(words) ==
    {pl \in (1..Len(words)) \X {2, 3} : pl[1] + pl[2] - 1 =< Len(words)}

GramAt(words, pl) == JoinWords(SubSeq(words, pl[1], pl[1] + pl[2] - 1))

\* the phrase at each place of a text
TextGrams(text) ==
    LET words == ContentWords(text)
    IN  [pl \in GramPlaces(words) |-> GramAt(words, pl)]

\* the phrases of the collected texts of a theme, text by text
CollectedGrams(name) ==
    LET texts == CollectedTexts(name)
    IN  [k \in DOMAIN texts |-> TextGrams(texts[k])]

\* how often a phrase occurs in the collected texts
Frequency(grams, phrase) ==
    SumSeq([k \in DOMAIN grams |->
              Cardinality({pl \in DOMAIN grams[k] : grams[k][pl] = phrase})])

AllGrams(grams) ==
    UNION { {grams[k][pl] : pl \in DOMAIN grams[k]} : k \in DOMAIN grams }

SameCallAgain ==
    /\ aggregates.present
    /\ aggregates'.present
    /\ allFeedback' = allFeedback
    /\ aggCall'.opts = aggCall.opts

ScenarioDone == aggregates.present /\ Generated /\ gen.fData = allFeedback

RatedAt(rating) == {i \in DOMAIN AggItems : AggItems[i].rating = rating}

DurabilityInsights == {i \in DOMAIN insights : insights[i].type = "durability"}

DurabilityHighEmitted == \E i \in DurabilityInsights : insights[i].priority = "high"

\* C16 as stated: for a batch of 10 records, 6 rated 5 with positive text
\* and 4 rated 1, tagged Durability, whose text contains 'broke' and
\* 'tarnish', the aggregate positive percentage is strictly greater than the
\* negative percentage and the rule engine emits a Durability insight with
\* priority high.
C16_ScenarioPositiveAndDurability ==
    ScenarioDone =>
      /\ aggregates.sentiment.positive > aggregates.sentiment.negative
      /\ DurabilityHighEmitted

\* C16 amended: for such a batch the positive percentage is strictly greater
\* than the negative percentage iff the review weights of the six sum to
\* more than those of the four, which is so when the ten records have the
\* same confidence and age and pairwise different texts; the Durability
\* insight (high) is emitted iff the four, labelled Negative, are more than
\* 40% of the Durability-tagged records, that is iff at most five of the six
\* are tagged Durability as well.
C16_ScenarioByWeights ==
    ScenarioDone =>
      LET six == RatedAt(5)
          four == RatedAt(1)
          weightOf(S) == SumSeq([i \in DOMAIN aggLocals |->
                                   IF i \in S THEN aggLocals[i].reviewWeight ELSE 0])
          alike == /\ \A i, j \in DOMAIN AggItems :
                        /\ AggItems[i].sentiment.confidence = AggItems[j].sentiment.confidence
                        /\ AggItems[i].created_at = AggItems[j].created_at
                   /\ \A i \in DOMAIN aggLocals : aggLocals[i].prev = 0
      IN  /\ Cardinality(six) = 6 /\ Cardinality(four) = 4
          /\ (aggregates.sentiment.positive > aggregates.sentiment.negative)
               <=> (weightOf(six) > weightOf(four))
          /\ alike => aggregates.sentiment.positive > aggregates.sentiment.negative
          /\ DurabilityHighEmitted
               <=> (Cardinality(six \cap Tagged("Durability")) =< 5)

\* ten records of the same confidence and day and of ten different texts,
\* the six not tagged Durability: 60% positive, 40% negative, and the
\* Durability insight is stored
C16_Witness ==
    /\ ScenarioDone
    /\ \A i \in DOMAIN aggLocals : aggLocals[i].reviewWeight = Scale
    /\ RatedAt(5) \cap Tagged("Durability") = {}
    /\ aggregates.sentiment.positive = 6000
    /\ aggregates.sentiment.negative = 4000
    /\ DurabilityHighEmitted

\* C17 as stated: for the batch of 6 records rated 5 and 4 rated 1 the rule
\* engine emits a critical rating-health insight.
C17_ScenarioRatingCritical ==
    ScenarioDone => \E i \in RatingInsights : insights[i].priority = "critical"

\* C17 amended: for the batch of 6 records rated 5 and 4 rated 1 the average
\* rating is 3.4, and the rule engine emits one rating-health insight, of
\* priority high, and no critical one.
C17_ScenarioRatingHigh ==
    ScenarioDone =>
      /\ TotalRating(GenItems, DOMAIN GenItems) = 34
      /\ Len(GenItems) = 10
      /\ Cardinality(RatingInsights) = 1
      /\ \A i \in RatingInsights : insights[i].priority = "high"

\* the rules have run on the scenario batch whose four negative records come
\* first: the stored rating-health insight has priority high
C17_Witness ==
    /\ ScenarioDone
    /\ GenItems[1].rating = 1
    /\ GenItems[10].rating = 5
    /\ \E i \in RatingInsights : insights[i].priority = "high"

Analyzed == analysis.state = "returned"

\* C18 as stated: for the review text "Love it" the Sentiment Analyzer
\* ('love' weighs +2, score = clamp(raw_total / 20, -1, 1), label by the score
\* thresholds) returns a score > 0 and the label Positive.
C18_LoveItPositive ==
    (Analyzed /\ analysis.text = TxtLove) =>
      /\ analysis.result.score > 0
      /\ analysis.result.label = "Positive"

\* C18 amended: for the review text "Love it" the only lexicon word is
\* 'love' (+2), raw_total is 2 and the score is 2/20 = 0.1, which is above 0
\* but not above 0.2: the label is Neutral.
C18_LoveItNeutral ==
    (Analyzed /\ analysis.text = TxtLove) =>
      /\ analysis.result.tokens = << <<"l", "o", "v", "e">>, <<"i", "t">> >>
      /\ analysis.result.raw_total = 2
      /\ analysis.result.score = 2
      /\ analysis.result.score > 0
      /\ analysis.result.label = "Neutral"

\* the analyzer has returned for "Love it"
C18_Witness ==
    /\ Analyzed
    /\ analysis.text = TxtLove
    /\ analysis.result.match_count = 1
    /\ analysis.result.label = "Neutral"

TriggerPositions == {i \in DOMAIN analysis.result.tokens : IsNegationTrigger(analysis.result.tokens[i])}

\* C20: the negation scope is exactly the 3 tokens after a trigger: the
\* weight of a lexicon word at position j is sign-inverted iff some trigger
\* stands at a position i with 1 <= j - i <= 3; a lexicon word at offset 4 or
\* more from every trigger keeps its sign, and a word inside two overlapping
\* scopes is inverted once, not twice.
C20_NegationScopeThree ==
    Analyzed =>
      LET tokens == analysis.result.tokens
          applied == analysis.result.applied
          lexical == {j \in DOMAIN tokens : tokens[j] \in LexiconWords}
      IN  /\ {applied[k].at : k \in DOMAIN applied} = lexical
          /\ Len(applied) = Cardinality(lexical)
          /\ \A k \in DOMAIN applied :
               LET j == applied[k].at
                   negated == \E i \in TriggerPositions : 1 =< j - i /\ j - i =< 3
               IN  applied[k].weight =
                     (IF negated THEN 0 - BaseWeight(tokens[j]) ELSE BaseWeight(tokens[j]))
          /\ analysis.result.raw_total =
               SumSeq([k \in DOMAIN applied |-> applied[k].weight])

\* a trigger at position 1, 'love' at the positions 4 and 5: the first is
\* inverted, the second keeps its sign
C20_Witness ==
    /\ Analyzed
    /\ Len(analysis.result.tokens) = 5
    /\ TriggerPositions = {1}
    /\ analysis.result.applied = << [at |-> 4, weight |-> 0 - 2], [at |-> 5, weight |-> 2] >>
    /\ analysis.result.raw_total = 0

(***************************************************************************)
(* Theme labels of an analysed review and their buckets.                   *)
(***************************************************************************)
\* a phrase or a keyword of the theme occurs in the text
NamedThemeOccurs(text, theme) ==
    \/ PhraseMatch(ToLowerCase(text), theme)
    \/ KeywordMatch(ToLowerCase(text), theme)

\* the labels under which record i is aggregated
BucketsOf(i) ==
    IF AggItems[i].themes = <<>> THEN {"Other"} ELSE Range(AggItems[i].themes)

\* C21: every analysed review carries a non-empty list of theme labels; the
\* list is exactly 'Other' iff none of Comfort, Durability, Appearance
\* matched, so 'Other' never stands next to a named theme; and the
\* aggregation attributes every record to at least one theme bucket.
C21_ThemesNonEmpty ==
    /\ detection.state = "returned" =>
         LET labels == Range(detection.themes)
         IN  /\ detection.themes # <<>>
             /\ labels \subseteq ThemeNames
             /\ \A theme \in Range(DetectedThemes) :
                  theme \in labels <=> NamedThemeOccurs(detection.text, theme)
             /\ "Other" \in labels
                  <=> \A theme \in Range(DetectedThemes) :
                        ~NamedThemeOccurs(detection.text, theme)
             /\ "Other" \in labels => detection.themes = <<"Other">>
    /\ aggregates.present /\ Len(aggLocals) = Len(AggItems) =>
         \A i \in DOMAIN AggItems :
           /\ BucketsOf(i) # {}
           /\ BucketsOf(i) \subseteq ThemeNames
           /\ aggLocals[i].reviewWeight > 0 =>
                \A name \in BucketsOf(i) : aggregates.themeStats[name] > 0

\* a review whose only theme word contains a keyword without being one was
\* given 'Other', and was aggregated after a record stored without labels
C21_Witness ==
    /\ detection.state = "returned"
    /\ Includes(detection.text, <<"l", "i", "g", "h", "t", "e", "r">>)
    /\ detection.themes = <<"Other">>
    /\ aggregates.present
    /\ Len(aggLocals) = 2
    /\ AggItems[1].themes = <<>>
    /\ aggregates.themeStats["Other"] > 0

(***************************************************************************)
(* The dashboard and the handler left to themselves.                       *)
(***************************************************************************)
\* C22: from any state, with no user action at all, a new fetch of the
\* dashboard data is eventually started again.
C22_AutoRefresh ==
    \A n \in 0..(MaxFetch - 1) : (fetches = n) ~> (fetches > n)

FetchFails == inflight' < inflight /\ lastRefresh' = lastRefresh

\* a step in which a call of fetchData ends after its setters
FetchSucceeds == inflight' < inflight /\ lastRefresh' # lastRefresh

\* C24: fetchData is all-or-nothing: if one of the three requests fails,
\* none of sentimentData, themeData, allFeedback, aggregates and lastRefresh
\* changes and error is set; if all three succeed, all five are updated from
\* the same responses, aggregates being computed from exactly the feedback
\* just stored, and error is null.  In both cases loading ends false.
C24_FetchAllOrNothing ==
    [][ /\ FetchFails =>
             /\ UNCHANGED <<sentimentData, themeData, allFeedback, aggregates, lastRefresh>>
             /\ dashError' # NoError
             /\ ~loading'
        /\ FetchSucceeds =>
             /\ \E data \in ServerData :
                  /\ sentimentData' = data.sentiment
                  /\ themeData' = data.themes
                  /\ allFeedback' = data.feedback
             /\ aggregates' = computeAdjustedAggregates(allFeedback'.items, DefaultOpts, now)
             /\ dashError' = NoError
             /\ ~loading'
      ]_vars

(***************************************************************************)
(* FeedbackForm: what is sent, and when onSubmitSuccess is called.         *)
(***************************************************************************)
NonBlank(text) == \E i \in DOMAIN text : text[i] \notin Spaces

\* a product is selected (with a non-blank name when it is 'Other'), the
\* rating is between 1 and 5, the review is non-blank and of at most 5000
\* characters
ValidForm(formData) ==
    /\ formData.product_id \in VALID_PRODUCTS
    /\ formData.product_id = "Other" => NonBlank(formData.product_name)
    /\ formData.rating \in 1..5
    /\ NonBlank(formData.review_text)
    /\ Len(formData.review_text) =< 5000

\* C25: FeedbackForm sends a submission request only when validation
\* passes; when validation fails no request is sent, the form data are
\* unchanged and onSubmitSuccess is not called.  onSubmitSuccess is called
\* exactly once per successful request and never after a failed one.
C25_SubmitOnlyValid ==
    [][ /\ form'.sent # form.sent =>
             /\ form'.submits = form.submits + 1
             /\ ValidForm(form.formData)
        /\ form'.submits # form.submits =>
             IF ValidForm(form.formData)
             THEN form'.sent = form.sent + 1
             ELSE /\ form'.sent = form.sent
                  /\ form'.formData = form.formData
                  /\ form'.successCalls = form.successCalls
                  /\ ~form'.isSubmitting
        /\ form'.succeeded # form.succeeded =>
             form'.successCalls = form.successCalls + 1
        /\ form'.succeeded = form.succeeded =>
             form'.successCalls = form.successCalls
        /\ form'.successCalls = form'.succeeded
        /\ form'.succeeded + form'.failed =< form'.sent
      ]_vars

\* a request has succeeded and onSubmitSuccess was called once; then a
\* review of 5001 characters was entered and refused by the validation
C25_Witness ==
    /\ form.submits = 2
    /\ form.sent = 1
    /\ form.succeeded = 1
    /\ form.successCalls = 1
    /\ Len(form.formData.review_text) = MaxReviewLength + 1
    /\ "review_text" \in DOMAIN form.errors
    /\ form.errors["review_text"] = "Review cannot exceed 5000 characters"

(***************************************************************************)
(* Overlapping calls of fetchData.                                         *)
(***************************************************************************)
\* every call of fetchData started so far has ended after its setters
AllRefreshesSucceeded == inflight = 0 /\ fetches > 0 /\ lastRefresh = fetches

\* the displayed data are those of the call that was started last
LastStartedShown == refresh.shown = fetches

\* loading is true while some call of fetchData is in flight
LoadingWhileInFlight == inflight > 0 => loading

\* C26: when dashboard refreshes overlap, once all have completed the
\* displayed sentimentData, themeData, allFeedback and aggregates are those
\* of the refresh that was started last, whatever the order in which the
\* responses arrive; and loading is true in every state in which some
\* refresh is still in flight.
C26_LastRefreshWins ==
    /\ AllRefreshesSucceeded => LastStartedShown
    /\ LoadingWhileInFlight

(***************************************************************************)
(* The range of review_weight.                                             *)
(***************************************************************************)
\* the age in days of record i at the latest aggregation
AgeOf(i) == daysSince(AggItems[i].created_at, aggCall.at)

\* review_weight of record i is at most 1, and above 0; weights are held in
\* units of 1/Scale, so a record as old as 9999 days has the weight 0 here
InUnitInterval(i) ==
    /\ aggLocals[i].reviewWeight =< Scale
    /\ aggLocals[i].reviewWeight >= 0
    /\ aggLocals[i].tw > 0 => aggLocals[i].reviewWeight > 0

\* C27 as stated: for every record whose confidence is in [0,1] and for
\* any created_at (missing, unparseable, in the past or later than the
\* current time) review_weight lies in (0, 1]; hence effective_total never
\* exceeds the number of records of the batch.
C27_WeightInUnitInterval ==
    aggregates.present =>
      /\ \A i \in DOMAIN aggLocals : InUnitInterval(i)
      /\ aggregates.sentiment.totalEffective =< Len(AggItems) * Scale

\* C27, amended: for every record whose created_at is missing, unparseable
\* or not later than the current time, review_weight lies in [0, 1]; when
\* every record of the batch is such a record, effective_total does not
\* exceed the number of records.  A record created later than the current
\* time has a time_weight of at least 1.
C27_WeightOfPastRecords ==
    aggregates.present =>
      /\ \A i \in DOMAIN aggLocals :
           IF AgeOf(i) >= 0 THEN InUnitInterval(i) ELSE aggLocals[i].tw >= Scale
      /\ (\A i \in DOMAIN aggLocals : AgeOf(i) >= 0) =>
           aggregates.sentiment.totalEffective =< Len(AggItems) * Scale

\* an undated record, a record of one half-life and a record of age 0 have
\* been aggregated
C27_Witness ==
    /\ aggregates.present
    /\ Len(AggItems) = 3
    /\ \E i \in DOMAIN AggItems : ~AggItems[i].created_at.valid /\ AgeOf(i) = 9999
    /\ \E i \in DOMAIN AggItems :
         /\ AgeOf(i) = DefaultOpts.halfLifeDays
         /\ aggLocals[i].tw = Scale \div 2
    /\ \E i \in DOMAIN AggItems : AgeOf(i) = 0 /\ aggLocals[i].tw = Scale
    /\ aggregates.sentiment.totalEffective > 0

(***************************************************************************)
(* The order of the records in the batch.                                  *)
(***************************************************************************)
\* the orders in which the records of the batch can be given: every
\* permutation of a batch of up to MaxBatch records, every exchange of two
\* records of a longer one
Orders(items) ==
    IF Len(items) =< MaxBatch
    THEN { p \in [DOMAIN items -> DOMAIN items] :
             \A i, j \in DOMAIN items : p[i] = p[j] => i = j }
    ELSE { [k \in DOMAIN items |-> IF k = i THEN j ELSE IF k = j THEN i ELSE k] :
             i \in DOMAIN items, j \in DOMAIN items }

\* the sums the loop leaves behind for a list of records
SumsOf(items, opts, at) ==
    LET locals == LoopLocals(items, opts, at)
    IN  [rawPositive |-> SumWeights(locals, "posContrib"),
         rawNegative |-> SumWeights(locals, "negContrib"),
         rawNeutral |-> SumWeights(locals, "neuContrib"),
         totalEffective |-> SumWeights(locals, "reviewWeight"),
         themeStats |-> [t \in ThemeNames |-> ThemeEffCount(locals, t)]]

\* every order of the batch gives the sums of the latest aggregation
SameSumsInEveryOrder ==
    \A p \in Orders(AggItems) :
      SumsOf([i \in DOMAIN AggItems |-> AggItems[p[i]]], aggCall.opts, aggCall.at)
        = SumsOf(AggItems, aggCall.opts, aggCall.at)

\* no two records of the batch have the same fingerprint
DistinctFingerprints ==
    \A i, j \in DOMAIN aggLocals : aggLocals[i].fp = aggLocals[j].fp => i = j

\* C28 as stated: the snapshot does not depend on the order of the records:
\* for every permutation of the same records, duplicate texts with
\* different ratings, confidences or ages included, the positive, negative
\* and neutral contributions, effective_total and the per-theme effective
\* counts are the same.
C28_OrderIndependent ==
    aggregates.present => SameSumsInEveryOrder

\* C28, amended: when no two records of the batch have the same
\* fingerprint, every permutation of the records gives the same positive,
\* negative and neutral contributions, effective_total and per-theme
\* effective counts.
C28_OrderIndependentWithoutDuplicates ==
    (aggregates.present /\ DistinctFingerprints) => SameSumsInEveryOrder

\* three records of different texts, confidences and ratings have been
\* aggregated, the second of two theme labels
C28_Witness ==
    /\ aggregates.present
    /\ DistinctFingerprints
    /\ Len(AggItems) = 3
    /\ aggLocals[1].reviewWeight # aggLocals[2].reviewWeight
    /\ aggLocals[1].s_final # aggLocals[3].s_final
    /\ Len(AggItems[2].themes) = 2
    /\ aggregates.sentiment.rawPositive = SumsOf(AggItems, aggCall.opts, aggCall.at).rawPositive

(***************************************************************************)
(* The flag and the effective sample size the snapshot reports.            *)
(***************************************************************************)
\* the returned sentiment.totalEffective, in units of 1/Scale
ReportedTotal == aggregates.sentiment.totalEffective

\* C29 as stated: in every returned snapshot insufficientData is true iff
\* the returned sentiment.totalEffective, the value rounded to 3 decimals
\* that the dashboard displays, is below 5.
C29_FlagMatchesReportedTotal ==
    aggregates.present =>
      (aggregates.insufficientData <=> ReportedTotal < 5 * Scale)

\* C29, amended: the returned totalEffective is effective_total rounded to
\* the nearest 1/1000 and the flag is taken from the unrounded value; so a
\* reported total below 5 has the flag true, a false flag has a reported
\* total of 5 or more, and a true flag has a reported total of at most
\* 5.000, which is reached when effective_total is in [4.9995, 5).
C29_FlagFromUnroundedTotal ==
    aggregates.present =>
      /\ ReportedTotal % (Scale \div 1000) = 0
      /\ Abs(ReportedTotal - SumSeq(ReviewWeights)) * 2000 =< Scale
      /\ ReportedTotal < 5 * Scale => aggregates.insufficientData
      /\ ~aggregates.insufficientData => ReportedTotal >= 5 * Scale
      /\ aggregates.insufficientData => ReportedTotal =< 5 * Scale
      /\ (aggregates.insufficientData /\ ReportedTotal = 5 * Scale) =>
           (SumSeq(ReviewWeights) * 2000 >= 9999 * Scale /\ SumSeq(ReviewWeights) < 5 * Scale)

\* a batch of effective_total 4.99998 has been aggregated: the flag is true
\* and the reported total is 5.000
C29_Witness ==
    /\ aggregates.present
    /\ aggregates.insufficientData
    /\ ReportedTotal = 5 * Scale
    /\ SumSeq(ReviewWeights) = 49998

(***************************************************************************)
(* What a failed invocation of handleGenerateInsights leaves behind.       *)
(***************************************************************************)
\* a step in which an invocation suspends at await onRefresh()
Suspends == gen'.pc = "awaitRefresh" /\ gen.pc # "awaitRefresh"

=============================================================================
